---- MODULE Spec2Model ----
(***************************************************************************)
(* Model of the question-data pipeline of judo-exam-tool:                  *)
(*   - generateQuestionsFromAnswerPdf (services/questionGenerator.ts), the *)
(*     source resolution orchestrator, one action per awaited step;        *)
(*   - loadQuestionsFromJson / loadCorrectAnswers / convertToQuestion      *)
(*     (services/jsonQuestionLoader.ts), as operators;                     *)
(*   - the two callers that run every (exam, session) pair in sequence:    *)
(*     Home.loadQuestions and generateAllQuestions.                        *)
(* Files served over HTTP are the environment: every fetch draws its       *)
(* response from a small set, independently of earlier fetches.            *)
(* Five specifications share the variables:                                *)
(*   Spec         the orchestrator and its callers;                        *)
(*   CallSpec     the pure functions (convertToQuestion, the supplement    *)
(*                merge, the choice shuffle, ...), each applied to         *)
(*                arguments drawn in Init;                                 *)
(*   SessionSpec  Home.startSession / startExamMode over a loaded          *)
(*                collection;                                              *)
(*   CacheSpec    two concurrent callers of services/bessatsuRenderer.ts   *)
(*                and its image cache, one action per awaited step;        *)
(*   QuizSpec     components/QuestionSession.tsx, one action per event.    *)
(***************************************************************************)
EXTENDS Integers, Sequences, FiniteSets, TLC

(***************************************************************************)
(* Bounds and program constants                                            *)
(***************************************************************************)

\* How many entries of EXAM_CONFIGS (in table order) the callers iterate over.
NumExams == 1

\* The question numbers getCategoryByQuestionNumber is asked about: 0 up to
\* this number (the tables end at 128 and 122).
MaxQuestionNumber == 130

\* the text runs of a page
MaxRuns == 3

\* The seconds of a session's time limit (75 per question in test mode, 9000
\* in exam mode in the program).
MaxTime == 2

\* How many calls of onComplete a session is followed for.
MaxCompletions == 2

\* questionGenerator.ts:363  questionPdfText.trim().length < 100
MinQuestionTextLen == 100
\* questionGenerator.ts:437  match[0].length > 50
MinSectionLen == 50
\* questionGenerator.ts:449/451  [\s\S]{100,}? and flexibleMatch[0].length > 100
FlexibleMinLen == 100

Sessions == <<"gozen", "gogo">>

\* config/pdfConfig.ts EXAM_CONFIGS (examNumber, year), in table order.
EXAM_CONFIGS ==
  << [examNumber |-> 29, year |-> 2021],
     [examNumber |-> 30, year |-> 2022],
     [examNumber |-> 31, year |-> 2023],
     [examNumber |-> 32, year |-> 2024],
     [examNumber |-> 33, year |-> 2025] >>

\* config/pdfConfig.ts ANSWER_PDF_MAP
ANSWER_PDF_MAP ==
  [n \in {29, 30, 31, 32, 33} |->
     CASE n = 29 -> "29_seitou.pdf"
       [] n = 30 -> "30_seitou.pdf"
       [] n = 31 -> "31_seitou.pdf"
       [] n = 32 -> "32_seitou.pdf"
       [] n = 33 -> "33_seitou.pdf"]

Null == "null"

\* an absent number (a record without questionNumber)
NoNumber == -1

\* an absent array (correctAnswers === undefined, no questions array)
Undefined == <<"undefined">>

(***************************************************************************)
(* Small helpers                                                           *)
(***************************************************************************)

Min2(a, b) == IF a < b THEN a ELSE b

Range(s) == {s[i] : i \in 1..Len(s)}

RECURSIVE Arrangements(_)
\* the sequences without repetition over the elements of S, of every length
Arrangements(S) ==
  {<<>>} \cup UNION { {<<x>> \o t : t \in Arrangements(S \ {x})} : x \in S }

RECURSIVE Concat(_)
\* the concatenation of a sequence of sequences
Concat(ss) == IF ss = <<>> THEN <<>> ELSE Head(ss) \o Concat(Tail(ss))

DigitChar == <<"0", "1", "2", "3", "4", "5", "6", "7", "8", "9">>

RECURSIVE NumToString(_)
\* Number.prototype.toString() / template-literal interpolation of a number
NumToString(n) ==
  IF n = NoNumber THEN "undefined"
  ELSE IF n < 10 THEN DigitChar[n + 1]
  ELSE NumToString(n \div 10) \o DigitChar[(n % 10) + 1]

RECURSIVE DigitsOf(_)
\* the set of decimal digits occurring in n
DigitsOf(n) == IF n < 10 THEN {n} ELSE DigitsOf(n \div 10) \cup {n % 10}

\* String.prototype.trim() on the choice texts of the model: a text made of
\* white space only becomes the empty string.
Trim(t) == IF t \in {"", " ", "  "} THEN "" ELSE t

\* String.fromCharCode(96 + num) for num in 1..5
LabelOfNumber(num) == <<"a", "b", "c", "d", "e">>[num]

(***************************************************************************)
(* config/pdfConfig.ts                                                     *)
(***************************************************************************)

getAvailableExamNumbers ==
  [i \in 1..Min2(NumExams, Len(EXAM_CONFIGS)) |-> EXAM_CONFIGS[i].examNumber]

\* EXAM_CONFIGS.find(...) is not undefined
hasExamConfig(examNumber) ==
  \E i \in 1..Len(EXAM_CONFIGS) : EXAM_CONFIGS[i].examNumber = examNumber

\* EXAM_CONFIGS.find(...), for an exam number that has an entry
getExamConfig(examNumber) ==
  EXAM_CONFIGS[CHOOSE i \in 1..Len(EXAM_CONFIGS) :
                 EXAM_CONFIGS[i].examNumber = examNumber]

getQuestionPdfPath(examNumber, session) ==
  IF ~hasExamConfig(examNumber) THEN Null
  ELSE "/pdfs/" \o NumToString(getExamConfig(examNumber).year) \o "_"
         \o NumToString(examNumber) \o "_" \o session \o ".pdf"

\* config/pdfConfig.ts getBessatsuPdfPath: every entry of EXAM_CONFIGS names
\* a supplement PDF for both sessions; exam 33 names the morning file twice.
getBessatsuPdfPath(examNumber, session) ==
  IF ~hasExamConfig(examNumber) THEN Null
  ELSE "/pdfs/" \o NumToString(getExamConfig(examNumber).year) \o "_"
         \o NumToString(examNumber) \o "_"
         \o (IF examNumber = 33 THEN "gozen" ELSE session) \o "_bessatsu.pdf"

\* mutant: the exam has no entry in ANSWER_PDF_MAP
getAnswerPdfPathUnmapped(examNumber) == Null

getAnswerPdfPath(examNumber) ==
  IF examNumber \notin DOMAIN ANSWER_PDF_MAP THEN Null
  ELSE "/answers/" \o ANSWER_PDF_MAP[examNumber]

\* types/questionData.ts getQuestionDataPath
getQuestionDataPath(examNumber, session) ==
  "/data/questions/" \o NumToString(examNumber) \o "_" \o session \o ".json"

(***************************************************************************)
(* config/categoryConfig.ts                                                *)
(***************************************************************************)

QuestionRangeMapping(startQuestion, endQuestion, category) ==
  [startQuestion |-> startQuestion, endQuestion |-> endQuestion, category |-> category]

GOZEN_CATEGORY_MAPPING ==
  << QuestionRangeMapping(1, 40, "judo_therapy"),
     QuestionRangeMapping(41, 50, "law"),
     QuestionRangeMapping(51, 80, "anatomy"),
     QuestionRangeMapping(81, 105, "physiology"),
     QuestionRangeMapping(106, 115, "kinesiology"),
     QuestionRangeMapping(116, 128, "pathology") >>

GOGO_CATEGORY_MAPPING ==
  << QuestionRangeMapping(1, 12, "hygiene"),
     QuestionRangeMapping(13, 23, "rehabilitation"),
     QuestionRangeMapping(24, 45, "clinical_general"),
     QuestionRangeMapping(46, 56, "surgery"),
     QuestionRangeMapping(57, 67, "orthopedics"),
     QuestionRangeMapping(68, 122, "judo_therapy") >>

\* mutant: the morning table is used for both sessions
getCategoryIgnoringSession(questionNumber, session) ==
  LET hits == {i \in 1..Len(GOZEN_CATEGORY_MAPPING) :
                 /\ questionNumber >= GOZEN_CATEGORY_MAPPING[i].startQuestion
                 /\ questionNumber <= GOZEN_CATEGORY_MAPPING[i].endQuestion}
  IN IF hits = {} THEN "judo_therapy"
     ELSE GOZEN_CATEGORY_MAPPING[CHOOSE i \in hits : \A j \in hits : i <= j].category

\* the first range holding the number; judo_therapy when there is none
getCategoryByQuestionNumber(questionNumber, session) ==
  LET mapping == IF session = "gozen" THEN GOZEN_CATEGORY_MAPPING
                 ELSE GOGO_CATEGORY_MAPPING
      hits == {i \in 1..Len(mapping) :
                 /\ questionNumber >= mapping[i].startQuestion
                 /\ questionNumber <= mapping[i].endQuestion}
  IN IF hits = {} THEN "judo_therapy"
     ELSE mapping[CHOOSE i \in hits : \A j \in hits : i <= j].category

(***************************************************************************)
(* The environment: what the served files can hold                         *)
(***************************************************************************)

\* One association "question number -> letters" of the answer-key text, in
\* document order, under the session heading it stands below.
AnswerLine(session, questionNumber, letters) ==
  [session |-> session, questionNumber |-> questionNumber, correctAnswers |-> letters]

AnswerTextFull ==
  << AnswerLine("gozen", 1, <<"a">>),
     AnswerLine("gozen", 2, <<"b", "d">>),
     AnswerLine("gogo", 1, <<"c">>),
     AnswerLine("gogo", 2, <<"e">>) >>

\* a key with a corrected line (question 1 listed twice) and no afternoon part
AnswerTextMorningOnly ==
  << AnswerLine("gozen", 1, <<"c">>),
     AnswerLine("gozen", 1, <<"a">>) >>

\* A PDF as fetch + pdf.js see it.
\*   missing: HEAD/GET not ok;  corrupt: getDocument rejects;
\*   scanned: pages without text items;  text: pages with text items.
Pdf(kind, text) == [kind |-> kind, text |-> text]

AnswerPdfs ==
  { Pdf("missing", <<>>), Pdf("corrupt", <<>>), Pdf("scanned", <<>>),
    Pdf("text", AnswerTextFull), Pdf("text", AnswerTextMorningOnly) }

\* One list entry of a question section: the marker style decides which of
\* the choice patterns sees it ("strict": a. X   "num": 1. X / (1) / full-width
\* "loose": a letter a-e followed by white space or a dot somewhere in the text).
Item(style, key, text) == [style |-> style, key |-> key, text |-> text]

\* The text from one question marker up to the next one.
\*   kind: "mon" = 問N, "dai" = 第N問, "mondai" = 問題N
\*   digits/wide: the number as written (half- or full-width digits)
\*   sep: the number is followed by white space or a dot
\*   len: characters from the marker to the next marker
\*   stem: the question sentence that follows the marker
\*   items: the list entries after the stem
Section(kind, digits, wide, sep, len, stem, items) ==
  [kind |-> kind, digits |-> digits, wide |-> wide, sep |-> sep,
   len |-> len, stem |-> stem, items |-> items]

QuestionText(trimLen, sections) == [trimLen |-> trimLen, sections |-> sections]

\* a few characters only (a cover page note on an otherwise scanned document)
QuestionTextShort == QuestionText(40, <<>>)

QuestionTextListed ==
  QuestionText(300,
    << Section("mon", <<1>>, FALSE, FALSE, 120, "Q1",
         << Item("strict", "a", "X"), Item("strict", "b", "Y"),
            Item("strict", "c", "Z"), Item("strict", "d", "W") >>),
       Section("mon", <<2>>, FALSE, TRUE, 180, "Q2",
         << Item("num", "1", "X"), Item("num", "2", " ") >>) >>)

QuestionTextSparse ==
  QuestionText(200,
    << Section("mondai", <<1>>, FALSE, FALSE, 130, "Q1", <<>>),
       Section("mondai", <<1, 2>>, FALSE, FALSE, 70, "Q12",
         << Item("loose", "A", "Y") >>) >>)

QuestionPdfs ==
  { Pdf("missing", QuestionTextShort), Pdf("scanned", QuestionTextShort),
    Pdf("text", QuestionTextShort), Pdf("text", QuestionTextListed),
    Pdf("text", QuestionTextSparse) }

\* QuestionDataItem; an absent string is Null, an absent array Undefined.
DataItem(questionNumber, choices, correctAnswer, correctAnswers, category) ==
  [questionNumber |-> questionNumber, choices |-> choices,
   correctAnswer |-> correctAnswer, correctAnswers |-> correctAnswers,
   category |-> category]

ItemSingle ==
  DataItem(1, [a |-> "X", b |-> "Y", c |-> "Z", d |-> "W", e |-> Null], "b", Undefined, Null)

ItemBlankChoices ==
  DataItem(1, [a |-> "X", b |-> " ", c |-> "", d |-> Null, e |-> " "], Null, <<"a", "c">>,
           "law")

\* both answer fields given, and they disagree
ItemBoth ==
  DataItem(3, [a |-> "X", b |-> "Y", c |-> "Z", d |-> "W", e |-> Null], "b", <<"c", "a">>,
           Null)

ItemNoAnswer ==
  DataItem(2, [a |-> "X", b |-> "Y", c |-> "Z", d |-> "W", e |-> "V"], Null, Undefined, Null)

\* QuestionDataFile as JSON.parse returns it; hasQuestions = FALSE: the file
\* has no questions array (data.questions is undefined).
DataFile(examNumber, session, hasQuestions, questions) ==
  [examNumber |-> examNumber, session |-> session,
   hasQuestions |-> hasQuestions, questions |-> questions]

\* The response to fetch(jsonPath).
\*   notOk: status not 2xx;  html: the rewrite fallback page;
\*   invalid: JSON.parse throws;  data: a parsed file.
JsonResponse(kind, data) == [kind |-> kind, data |-> data]

JsonResponses(examNumber, session) ==
  { JsonResponse("notOk", DataFile(examNumber, session, FALSE, <<>>)),
    JsonResponse("html", DataFile(examNumber, session, FALSE, <<>>)),
    JsonResponse("invalid", DataFile(examNumber, session, FALSE, <<>>)),
    JsonResponse("data", DataFile(examNumber, session, FALSE, <<>>)),
    JsonResponse("data", DataFile(examNumber, session, TRUE, <<>>)),
    JsonResponse("data", DataFile(examNumber, session, TRUE, <<ItemSingle>>)),
    JsonResponse("data",
      DataFile(examNumber, session, TRUE,
               <<ItemBlankChoices, ItemNoAnswer, ItemBoth>>)) }

(***************************************************************************)
(* services/jsonQuestionLoader.ts                                          *)
(***************************************************************************)

Choice(label, text) == [label |-> label, text |-> text]

\* mutant: the session left out of the id
QuestionIdWithoutSession(examNumber, session, questionNumber) ==
  NumToString(examNumber) \o "-" \o NumToString(questionNumber)

\* `${examNumber}-${session}-${questionNumber}`
QuestionId(examNumber, session, questionNumber) ==
  NumToString(examNumber) \o "-" \o session \o "-" \o NumToString(questionNumber)

AnswerData(examNumber, line) ==
  [examNumber |-> examNumber, session |-> line.session,
   questionNumber |-> line.questionNumber, correctAnswers |-> line.correctAnswers]

RECURSIVE parseAnswerText(_, _)
\* answerParser.parseAnswerText: one entry per line of the answer-key text, in
\* document order; when a (session, question number) is listed more than once
\* the last occurrence wins.
parseAnswerText(text, examNumber) ==
  IF text = <<>> THEN <<>>
  ELSE IF \E j \in 2..Len(text) :
            /\ text[j].session = Head(text).session
            /\ text[j].questionNumber = Head(text).questionNumber
       THEN parseAnswerText(Tail(text), examNumber)
       ELSE <<AnswerData(examNumber, Head(text))>>
              \o parseAnswerText(Tail(text), examNumber)

\* jsonQuestionLoader.extractTextFromPDF(blob): rejects when pdf.js cannot open
\* the document; a page without text items contributes an empty line.
loaderExtractTextFromPDF(pdf) ==
  [threw |-> pdf.kind = "corrupt",
   text |-> IF pdf.kind = "text" THEN pdf.text ELSE <<>>]

\* loadCorrectAnswers: the answer map of the session (question number ->
\* letters; a later entry of the same number overwrites); extracted: the text
\* extraction of the answer-key PDF was started; parsed: it succeeded and its
\* text went through parseAnswerText.
loadCorrectAnswers(examNumber, session, answerPdf) ==
  IF getAnswerPdfPath(examNumber) = Null \/ answerPdf.kind = "missing"
  THEN [answerMap |-> <<>>, extracted |-> FALSE, parsed |-> FALSE]
  ELSE LET got == loaderExtractTextFromPDF(answerPdf)
           answers == IF got.threw THEN <<>>
                      ELSE parseAnswerText(got.text, examNumber)
       IN [answerMap |-> SelectSeq(answers, LAMBDA a : a.session = session),
           extracted |-> TRUE, parsed |-> ~got.threw]

\* answerMap.get(questionNumber) || []  (Map.set keeps the last value set)
AnswerMapGet(answerMap, questionNumber) ==
  LET hits == {i \in 1..Len(answerMap) : answerMap[i].questionNumber = questionNumber}
  IN IF hits = {} THEN <<>>
     ELSE answerMap[CHOOSE i \in hits : \A j \in hits : j <= i].correctAnswers

\* mutant: the last answer of the list is taken as the primary one
LastAnswer(list, fallback) ==
  IF Len(list) > 0 /\ list[Len(list)] # "" THEN list[Len(list)] ELSE fallback

\* list[0] || fallback
FirstAnswer(list, fallback) ==
  IF Len(list) > 0 /\ list[1] # "" THEN list[1] ELSE fallback

\* mutant: the text is taken as written, blank or not
ChoiceTextUntrimmed(raw) == IF raw = Null THEN "" ELSE raw

\* item.choices.x?.trim() || ''
ChoiceText(raw) == IF raw = Null THEN "" ELSE Trim(raw)

\* the choices of convertToQuestion: a..d always built, e only when present
\* and not blank, then the empty ones filtered out
ConvertChoices(choices) ==
  LET abcd == << Choice("a", ChoiceText(choices.a)), Choice("b", ChoiceText(choices.b)),
                 Choice("c", ChoiceText(choices.c)), Choice("d", ChoiceText(choices.d)) >>
      all == IF choices.e # Null /\ Trim(choices.e) # ""
             THEN Append(abcd, Choice("e", Trim(choices.e)))
             ELSE abcd
  IN SelectSeq(all, LAMBDA c : c.text # "")

\* the fields of a Question the model follows; category is Null when the
\* object has no category property
Question(examNumber, session, questionNumber, choices, correctAnswer, correctAnswers, sourceFile, category) ==
  [id |-> QuestionId(examNumber, session, questionNumber),
   examNumber |-> examNumber, session |-> session,
   questionNumber |-> questionNumber, choices |-> choices,
   correctAnswer |-> correctAnswer, correctAnswers |-> correctAnswers,
   sourceFile |-> sourceFile, category |-> category]

\* mutant: the answer-key map is consulted before the record's own fields
AnswerSourceKeyFirst(item, pdfAnswerList) ==
  IF Len(pdfAnswerList) > 0 THEN "pdf"
  ELSE IF item.correctAnswers # Undefined /\ Len(item.correctAnswers) > 0
       THEN "correctAnswers"
  ELSE IF item.correctAnswer # Null /\ item.correctAnswer # "" THEN "correctAnswer"
  ELSE "pdf"

\* which branch of the if / else if / else of lines 667-680 is taken
AnswerSource(item, pdfAnswerList) ==
  IF item.correctAnswers # Undefined /\ Len(item.correctAnswers) > 0
  THEN "correctAnswers"
  ELSE IF item.correctAnswer # Null /\ item.correctAnswer # "" THEN "correctAnswer"
  ELSE "pdf"

convertToQuestion(item, examNumber, session, pdfCorrectAnswers) ==
  LET pdfAnswerList == AnswerMapGet(pdfCorrectAnswers, item.questionNumber)
      source == AnswerSource(item, pdfAnswerList)
      correctAnswer ==
        IF source = "correctAnswers" THEN FirstAnswer(item.correctAnswers, "")
        ELSE IF source = "correctAnswer" THEN item.correctAnswer
        ELSE FirstAnswer(pdfAnswerList, "")
      correctAnswers ==
        IF source = "correctAnswers"
        THEN (IF Len(item.correctAnswers) > 1 THEN item.correctAnswers ELSE Undefined)
        ELSE IF source = "correctAnswer" THEN Undefined
        ELSE IF Len(pdfAnswerList) > 1 THEN pdfAnswerList ELSE Undefined
  IN Question(examNumber, session, item.questionNumber,
              ConvertChoices(item.choices), correctAnswer, correctAnswers,
              NumToString(examNumber) \o "_" \o session \o ".json",
              IF item.category # Null /\ item.category # "" THEN item.category
              ELSE getCategoryByQuestionNumber(item.questionNumber, session))

\* loadQuestionsFromJson: never throws; every failure is an empty list.
\* extracted: whether loadCorrectAnswers extracted the answer-key PDF's text.
loadQuestionsFromJson(examNumber, session, response, answerPdf) ==
  IF response.kind # "data"
  THEN [questions |-> <<>>, extracted |-> FALSE, answerMap |-> <<>>, parsed |-> FALSE]
  ELSE LET data == response.data
           correct == loadCorrectAnswers(examNumber, session, answerPdf)
       IN [questions |->
             IF ~data.hasQuestions THEN <<>>
             ELSE [i \in 1..Len(data.questions) |->
                     convertToQuestion(data.questions[i], data.examNumber,
                                       data.session, correct.answerMap)],
           extracted |-> correct.extracted,
           answerMap |-> correct.answerMap, parsed |-> correct.parsed]

(***************************************************************************)
(* services/questionGenerator.ts: pure parts                               *)
(***************************************************************************)

\* An error is its message, a sequence of text fragments in order.
Includes(message, fragment) == \E i \in 1..Len(message) : message[i] = fragment

\* questionGenerator.extractTextFromPDF(pdfPath): throws when the file is not
\* there, when pdf.js cannot open it, and when no page yields any text;
\* every throw is rethrown with the path in front.
extractTextFromPDF(pdfPath, pdf) ==
  LET reason == CASE pdf.kind = "missing" -> <<"PDF file not found: ", pdfPath>>
                  [] pdf.kind = "corrupt" -> <<"invalid PDF structure">>
                  [] pdf.kind = "scanned" ->
                       <<"no text could be extracted from the PDF (possibly a scanned image): ",
                         pdfPath>>
                  [] OTHER -> <<>>
  IN [threw |-> pdf.kind # "text",
      text |-> pdf.text,
      message |-> <<"PDF text extraction error: ", pdfPath, " - ">> \o reason]

\* the template of the JSON file printed by the scanned-image error
JsonTemplate(examNumber, session) ==
  "{ examNumber: " \o NumToString(examNumber) \o ", year: "
    \o NumToString(getExamConfig(examNumber).year) \o ", session: " \o session
    \o ", totalQuestions: 115, questions: [ { questionNumber, questionText,"
    \o " choices: { a, b, c, d, e }, bessatsuPage } ] }"

AnswerPdfNotConfiguredMessage(examNumber) ==
  <<"answer PDF not found: exam ", NumToString(examNumber), " (check the configuration)">>

QuestionPdfNotConfiguredMessage(examNumber, session) ==
  <<"question PDF not found: exam ", NumToString(examNumber), session,
    " (check the configuration)">>

AnswerPdfFailedMessage(answerPdfPath, inner) ==
  <<"failed to read the answer PDF: ", answerPdfPath, " - ">> \o inner

AnswerDataMissingMessage(examNumber, session) ==
  <<"answer data not found: exam ", NumToString(examNumber), session,
    ". check the extracted text.">>

QuestionPdfFailedMessage(questionPdfPath, inner) ==
  <<"failed to extract the text of the question PDF: ", questionPdfPath, " - ">> \o inner

ScannedImageMessage(examNumber, session) ==
  <<"the question PDF is a scanned image, its text cannot be extracted.",
    "create the JSON file (", getQuestionDataPath(examNumber, session),
    ") and enter the question data.",
    "format of the JSON file:", JsonTemplate(examNumber, session)>>

\* the catch of the outer try: every error raised inside is rethrown wrapped
GenerationFailedMessage(examNumber, session, inner) ==
  <<"exam ", NumToString(examNumber), session, " question generation failed: ">>
    \o inner

(***************************************************************************)
(* Locating a question's section and its choices (lines 412-536)           *)
(***************************************************************************)

\* the character class [${questionNumberStr}０-９]: a half-width digit of the
\* wanted number, or any full-width digit
InClass(section, i, questionNumber) ==
  section.wide \/ section.digits[i] \in DigitsOf(questionNumber)

PatternKind(p) == <<"mon", "dai", "mondai">>[p]

\* Whether pattern p matches at the marker of this section: after the marker
\* word the class must match at least once; in pattern 2 the class run must
\* reach the closing 問, so every digit has to be in the class.
MarkerMatches(p, section, questionNumber) ==
  /\ section.kind = PatternKind(p)
  /\ IF p = 2
     THEN \A i \in 1..Len(section.digits) : InClass(section, i, questionNumber)
     ELSE InClass(section, 1, questionNumber)

\* questionPdfText.match(pattern): the first match in the text, 0 for null
FirstMatch(p, sections, questionNumber) ==
  LET hits == {i \in 1..Len(sections) : MarkerMatches(p, sections[i], questionNumber)}
  IN IF hits = {} THEN 0 ELSE CHOOSE i \in hits : \A j \in hits : i <= j

RECURSIVE SpanLen(_, _, _)
SpanLen(sections, from, to) ==
  IF from > to THEN 0 ELSE sections[from].len + SpanLen(sections, from + 1, to)

\* Whether a character of the class occurs in the section (its number or a
\* numeral of its list): [^問]*問[^問]*[class]+
HasClassChar(section, questionNumber) ==
  \/ section.wide
  \/ \E i \in 1..Len(section.digits) : section.digits[i] \in DigitsOf(questionNumber)
  \/ \E i \in 1..Len(section.items) :
       /\ section.items[i].style = "num"
       /\ section.items[i].key \in {DigitChar[d + 1] : d \in DigitsOf(questionNumber)}

\* The flexible pattern: the first section holding a class character that is
\* followed by at least 100 more characters; the match runs on to the first
\* marker after those 100 characters, and it begins right after the 問 of
\* the section before it (at the start of the text for the first section).
FlexibleMatch(sections, questionNumber) ==
  LET n == Len(sections)
      hits == {j \in 1..n : /\ HasClassChar(sections[j], questionNumber)
                             /\ SpanLen(sections, j, n) > FlexibleMinLen}
  IN IF hits = {} THEN [found |-> FALSE, from |-> 0, to |-> 0]
     ELSE LET j == CHOOSE x \in hits : \A y \in hits : x <= y
              ends == {k \in j..n : SpanLen(sections, j, k) > FlexibleMinLen}
          IN [found |-> TRUE,
              from |-> IF j > 1 THEN j - 1 ELSE j,
              to |-> CHOOSE k \in ends : \A y \in ends : k <= y]

RECURSIVE TryPatterns(_, _, _)
\* the loop over questionNumberPatterns: the first pattern whose first match
\* is longer than 50 characters; a shorter first match is only logged
TryPatterns(p, sections, questionNumber) ==
  IF p > 3 THEN [found |-> FALSE, from |-> 0, to |-> 0]
  ELSE LET m == FirstMatch(p, sections, questionNumber)
       IN IF m # 0 /\ sections[m].len > MinSectionLen
          THEN [found |-> TRUE, from |-> m, to |-> m]
          ELSE TryPatterns(p + 1, sections, questionNumber)

\* questionSection: the sections of the text it covers
LocateSection(text, questionNumber) ==
  LET strict == TryPatterns(1, text.sections, questionNumber)
  IN IF strict.found THEN strict ELSE FlexibleMatch(text.sections, questionNumber)

\* text.trim().replace(/\s+/g, ' ')
CleanText(t) == Trim(t)

\* pdfParser.extractChoices: the strictly labelled list  a. X  b. Y ...
extractChoices(sections) ==
  LET items == SelectSeq(Concat([i \in 1..Len(sections) |-> sections[i].items]),
                         LAMBDA it : it.style = "strict")
  IN [i \in 1..Len(items) |-> Choice(items[i].key, CleanText(items[i].text))]

NumberOfKey(key) == CHOOSE d \in 0..9 : DigitChar[d + 1] = key

\* What pattern1 sees in one section: the last digit of the question number
\* when it is 1-5 and followed by a separator (then the stem is its text),
\* and the numbered list entries.
NumeralEntries(section) ==
  LET last == section.digits[Len(section.digits)]
      marker == IF section.sep /\ last \in 1..5
                THEN <<Item("num", DigitChar[last + 1], section.stem)>>
                ELSE <<>>
  IN marker \o SelectSeq(section.items, LAMBDA it : it.style = "num")

\* pattern1: 1. X / (1) X / full-width, labelled by the numeral's value
FlexibleNumeralChoices(sections) ==
  LET items == SelectSeq(Concat([i \in 1..Len(sections) |-> NumeralEntries(sections[i])]),
                         LAMBDA it : NumberOfKey(it.key) \in 1..5)
  IN [i \in 1..Len(items) |->
        Choice(LabelOfNumber(NumberOfKey(items[i].key)), CleanText(items[i].text))]

\* String.prototype.toLowerCase() on a letter A-E / a-e
ToLowerCase(c) ==
  CASE c = "A" -> "a" [] c = "B" -> "b" [] c = "C" -> "c"
    [] c = "D" -> "d" [] c = "E" -> "e" [] OTHER -> c

\* pattern2: any letter a-e (either case) followed by a separator
FlexibleLetterChoices(sections) ==
  LET items == SelectSeq(Concat([i \in 1..Len(sections) |-> sections[i].items]),
                         LAMBDA it : it.style \in {"strict", "loose"})
  IN [i \in 1..Len(items) |->
        Choice(ToLowerCase(items[i].key), CleanText(items[i].text))]

PlaceholderChoices(text) ==
  << Choice("a", text), Choice("b", text), Choice("c", text), Choice("d", text) >>

ChoicesNotFound == "no choices were found"
QuestionNotFound == "the question was not found"

\* mutant: every strategy adds what it finds
ChoicesForMixing(text, questionSection) ==
  IF ~questionSection.found THEN PlaceholderChoices(QuestionNotFound)
  ELSE LET span == SubSeq(text.sections, questionSection.from, questionSection.to)
           extracted == extractChoices(span) \o FlexibleNumeralChoices(span)
                          \o FlexibleLetterChoices(span)
       IN IF Len(extracted) > 0 THEN extracted
          ELSE PlaceholderChoices(ChoicesNotFound)

\* choices of one question whose section was looked for (lines 457-536)
ChoicesFor(text, questionSection) ==
  IF ~questionSection.found THEN PlaceholderChoices(QuestionNotFound)
  ELSE LET span == SubSeq(text.sections, questionSection.from, questionSection.to)
           basic == extractChoices(span)
           byNumeral == IF Len(basic) = 0 THEN FlexibleNumeralChoices(span) ELSE basic
           extracted == IF Len(byNumeral) = 0 THEN FlexibleLetterChoices(span)
                        ELSE byNumeral
       IN IF Len(extracted) > 0 THEN extracted
          ELSE PlaceholderChoices(ChoicesNotFound)

\* the Question assembled for one answer entry (lines 413, 538-602)
QuestionFromAnswer(examNumber, session, answer, choices) ==
  Question(examNumber, session, answer.questionNumber,
           choices,
           FirstAnswer(answer.correctAnswers, "a"),
           answer.correctAnswers,
           getQuestionPdfPath(examNumber, session),
           Null)

\* SupplementReference (types/index.ts)
SupplementReference(referenceText, supplementId, imageNumber) ==
  [referenceText |-> referenceText, supplementId |-> supplementId,
   imageNumber |-> imageNumber]

\* an element of the local array `supplements`; questionNumbers is optional
\* (hasQuestionNumbers = FALSE: the property is undefined)
Supplement(id, imageNumber, examNumber, session, hasQuestionNumbers, questionNumbers) ==
  [id |-> id, imageNumber |-> imageNumber, examNumber |-> examNumber,
   session |-> session, hasQuestionNumbers |-> hasQuestionNumbers,
   questionNumbers |-> questionNumbers]

\* supplementLinker.linkSupplementReferences: every detected reference, in
\* its place, resolved to the first supplement record of the same exam and
\* session that has its image number; left as detected when there is none.
linkSupplementReferences(supplementReferences, examNumber, session, supplements) ==
  [i \in 1..Len(supplementReferences) |->
     LET ref == supplementReferences[i]
         hits == {k \in 1..Len(supplements) :
                    /\ supplements[k].imageNumber = ref.imageNumber
                    /\ supplements[k].examNumber = examNumber
                    /\ supplements[k].session = session}
     IN IF hits = {} THEN ref
        ELSE SupplementReference(ref.referenceText,
               supplements[CHOOSE k \in hits : \A j \in hits : k <= j].id,
               ref.imageNumber)]

\* mutant: nothing counts as linked already
ExistingImageNumbersNone(linkedSupplementReferences) == {}

\* new Set(linkedSupplementReferences.map(r => r.imageNumber)), taken once
\* before the loop over the supplement records
ExistingImageNumbers(linkedSupplementReferences) ==
  {linkedSupplementReferences[i].imageNumber : i \in 1..Len(linkedSupplementReferences)}

\* `別冊 ${supp.imageNumber}` (the word is written Bessatsu here)
SynthesizedReferenceText(imageNumber) == "Bessatsu " \o imageNumber

\* lines 541-578: the value of linkedSupplementReferences when the Question
\* is assembled, given what detectSupplementReferences found in the text
LinkedSupplementReferences(supplementReferences, examNumber, session, supplements, questionNumber) ==
  IF Len(supplements) = 0 THEN supplementReferences
  ELSE LET linked == IF Len(supplementReferences) > 0
                     THEN linkSupplementReferences(supplementReferences, examNumber,
                                                   session, supplements)
                     ELSE supplementReferences
           supplementsForThisQuestion ==
             SelectSeq(supplements,
                       LAMBDA supp : /\ supp.hasQuestionNumbers
                                     /\ questionNumber \in Range(supp.questionNumbers))
           existingImageNumbers == ExistingImageNumbers(linked)
           pushed == SelectSeq(supplementsForThisQuestion,
                               LAMBDA supp : supp.imageNumber \notin existingImageNumbers)
       IN linked \o [i \in 1..Len(pushed) |->
                       SupplementReference(SynthesizedReferenceText(pushed[i].imageNumber),
                                           pushed[i].id, pushed[i].imageNumber)]

(***************************************************************************)
(* utils/choiceShuffle.ts                                                  *)
(***************************************************************************)

\* the permutations of 1..n: perm[i] is the old position of the choice that
\* comes to position i
PermutationsOf(n) == {perm \in Arrangements(1..n) : Len(perm) = n}

\* mutant: the old-to-new mapping is keyed by the choice text
NewLabelByText(choices, perm, label) ==
  LET olds == {k \in 1..Len(choices) : choices[k].label = label}
  IN IF olds = {} THEN label
     ELSE LET text == choices[CHOOSE k \in olds : \A j \in olds : j <= k].text
              news == {i \in 1..Len(perm) : choices[perm[i]].text = text}
          IN LabelOfNumber(CHOOSE i \in news : \A j \in news : i <= j)

\* the old-to-new label mapping applied to one answer label: entries are set
\* in the new order under the choice's original label (a later entry of the
\* same label replaces an earlier one); a label without entry stays.
NewLabel(choices, perm, label) ==
  LET news == {i \in 1..Len(perm) : choices[perm[i]].label = label}
  IN IF news = {} THEN label
     ELSE LabelOfNumber(CHOOSE i \in news : \A j \in news : j <= i)

\* shuffleChoices: a new Question with the choices in the permuted order,
\* labelled a, b, c, ... by position, the answers remapped
shuffleChoices(question, perm) ==
  [question EXCEPT
     !.choices = [i \in 1..Len(perm) |->
                    Choice(LabelOfNumber(i), question.choices[perm[i]].text)],
     !.correctAnswer = NewLabel(question.choices, perm, question.correctAnswer),
     !.correctAnswers =
        IF question.correctAnswers = Undefined THEN Undefined
        ELSE [k \in 1..Len(question.correctAnswers) |->
                NewLabel(question.choices, perm, question.correctAnswers[k])]]

\* mutant: the Question objects handed in are rewritten in place
shuffleAllChoicesInPlace(questions, perms) ==
  LET shuffled == [i \in 1..Len(questions) |-> shuffleChoices(questions[i], perms[i])]
  IN [returned |-> shuffled, argument |-> shuffled]

\* shuffleAllChoices, one permutation per question.  returned: the array it
\* returns; argument: the objects of the array it was given, as they are
\* after the call (the caller shares them with its loaded collection).
shuffleAllChoices(questions, perms) ==
  [returned |-> [i \in 1..Len(questions) |-> shuffleChoices(questions[i], perms[i])],
   argument |-> questions]

(***************************************************************************)
(* State                                                                   *)
(***************************************************************************)

VARIABLES
  caller,              \* "home" (Home.loadQuestions), "generateAll", "direct"
  pairs,               \* the (exam, session) requests of the caller, in order
  pairIdx,             \* the request being served
  pc,                  \* position in generateQuestionsFromAnswerPdf / its caller
  log,                 \* the I/O steps taken by the current invocation, in order
  jsonQuestions,       \* the local `jsonQuestions` of the latest structured load
  questions,           \* the local array `questions` of the invocation
  sessionAnswers,      \* the answer entries of the requested session
  questionPdfText,     \* the extracted text of the question PDF
  pending,             \* the error the failed fallback will raise
  result,              \* how the current invocation ended
  outcomes,            \* the results of the invocations finished so far
  allQuestions,        \* the caller's aggregate
  allLoadedQuestions,  \* what the caller hands on (component state / return value)
  stored,              \* the question store written by saveQuestions
  loadError,
  sessionQuestions,    \* what onStartSession was last given
  call,                \* a function applied on its own, with its arguments
  ret,                 \* <<>> before the call returns, <<value>> after
  imageCache,          \* bessatsuRenderer's module-level Map, as a set of entries
  tasks,               \* the calls of the renderer in flight, one per caller
  settings,            \* QuestionSession's props.settings
  currentIndex,        \* QuestionSession state (counted from 0)
  answersRef,          \* answersRef.current
  showFeedback,
  remainingTime,
  showQuitConfirm,
  viewSelected,        \* QuestionView's selectedAnswer: the choice taken, or Null
  timerIndex,          \* the currentIndex seen by the interval's handleTimeUp
  mounted,             \* whether the parent renders QuestionSession
  completions          \* the onComplete calls made so far, in order

vars == << caller, pairs, pairIdx, pc, log, jsonQuestions, questions,
           sessionAnswers, questionPdfText, pending, result, outcomes,
           allQuestions, allLoadedQuestions, stored, loadError,
           sessionQuestions, call, ret, imageCache, tasks, settings,
           currentIndex, answersRef, showFeedback, remainingTime, showQuitConfirm,
           viewSelected, timerIndex, mounted, completions >>

locals == << jsonQuestions, questions, sessionAnswers, questionPdfText, pending >>
rendererVars == << imageCache, tasks >>
quizVars == << settings, currentIndex, answersRef, showFeedback, remainingTime,
              showQuitConfirm, viewSelected, timerIndex, mounted, completions >>
asideVars == << sessionQuestions, call, ret, rendererVars, quizVars >>
callerVars == << caller, pairs, pairIdx, outcomes, allQuestions,
                 allLoadedQuestions, stored, loadError, asideVars >>

Result(kind, qs, message) == [kind |-> kind, questions |-> qs, message |-> message]
NoResult == Result("none", <<>>, <<>>)
NoText == QuestionText(0, <<>>)
NoCall == [op |-> "none"]

examNumber == pairs[pairIdx][1]
session == pairs[pairIdx][2]

\* for (const examNumber of availableExams) for (const session of ['gozen', 'gogo'])
CallerPairs ==
  Concat([i \in 1..Len(getAvailableExamNumbers) |->
            [k \in 1..Len(Sessions) |-> <<getAvailableExamNumbers[i], Sessions[k]>>]])

\* requests made of the exported function itself; 34 has no configuration
DirectRequests == { <<29, "gozen">>, <<29, "gogo">>, <<34, "gozen">> }

\* the callers of the renderer that can be under way at the same time
Tasks == {"first", "second"}

\* a caller with no call under way
NoTask == [fn |-> "none", pc |-> "idle"]

\* no image rendered, no call of the renderer made
RendererIdle ==
  /\ imageCache = {}
  /\ tasks = [t \in Tasks |-> NoTask]

NoSettings == [mode |-> "none"]

\* QuestionSession is not rendered
QuizIdle ==
  /\ settings = NoSettings
  /\ currentIndex = 0
  /\ answersRef = <<>>
  /\ showFeedback = FALSE
  /\ remainingTime = NoNumber
  /\ showQuitConfirm = FALSE
  /\ viewSelected = Null
  /\ timerIndex = 0
  /\ mounted = FALSE
  /\ completions = <<>>

Init ==
  /\ caller \in {"home", "generateAll", "direct"}
  /\ pairs \in {CallerPairs} \cup {<<r>> : r \in DirectRequests}
  /\ (caller = "direct") = (pairs # CallerPairs)
  /\ pairIdx = 1
  /\ pc = "checkJson"
  /\ log = <<>>
  /\ jsonQuestions = <<>>
  /\ questions = <<>>
  /\ sessionAnswers = <<>>
  /\ questionPdfText = NoText
  /\ pending = <<>>
  /\ result = NoResult
  /\ outcomes = <<>>
  /\ allQuestions = <<>>
  /\ allLoadedQuestions = <<>>
  /\ stored = <<>>
  /\ loadError = Null
  /\ sessionQuestions = <<>>
  /\ call = NoCall
  /\ ret = <<>>
  /\ RendererIdle
  /\ QuizIdle

(***************************************************************************)
(* generateQuestionsFromAnswerPdf, step by step                            *)
(***************************************************************************)

\* return qs
Return(qs) ==
  /\ pc' = "returned"
  /\ result' = Result("returned", qs, <<>>)

\* throw new Error(message) before the try block
Throw(message) ==
  /\ pc' = "threw"
  /\ result' = Result("threw", <<>>, message)

\* throw inside the try block: caught at line 610 and rethrown wrapped
ThrowInTry(message) ==
  Throw(GenerationFailedMessage(examNumber, session, message))

\* mutant: the loaded questions are never taken
StructuredSourceIgnored(loaded) == FALSE

\* mutant: whatever was loaded is returned
StructuredSourceAlways(loaded) == TRUE

\* line 221: if (jsonQuestions.length > 0) return jsonQuestions
StructuredSourceUsable(loaded) == Len(loaded) > 0

\* line 217: checkJsonExists (a HEAD request)
CheckJsonExists ==
  /\ pc = "checkJson"
  /\ \E exists \in BOOLEAN :
       pc' = IF exists THEN "loadJson" ELSE "resolve"
  /\ log' = Append(log, "checkJson")
  /\ UNCHANGED << locals, result, callerVars >>

\* the log entries of one loadQuestionsFromJson call
LoadEvents(got) ==
  <<"loadJson">>
    \o (IF got.extracted THEN <<"loaderExtractAnswer">> ELSE <<>>)
    \o (IF got.parsed /\ got.answerMap = <<>> THEN <<"loaderAnswerKeyEmpty">> ELSE <<>>)

\* what the answer-key PDF just read holds for the requested session
AnswerPdfFacts(pdf) ==
  IF pdf.kind = "text" /\ \A i \in 1..Len(pdf.text) : pdf.text[i].session # session
  THEN <<"answerKeyEmpty">> ELSE <<>>

\* whether the question PDF just read gives usable text
QuestionPdfFacts(pdf) ==
  IF pdf.kind # "text" \/ pdf.text.trimLen < MinQuestionTextLen
  THEN <<"questionTextUnusable">> ELSE <<>>

\* lines 218-226
LoadJson ==
  /\ pc = "loadJson"
  /\ \E response \in JsonResponses(examNumber, session), answerPdf \in AnswerPdfs :
       LET got == loadQuestionsFromJson(examNumber, session, response, answerPdf)
       IN /\ log' = log \o LoadEvents(got)
          /\ jsonQuestions' = got.questions
          /\ IF StructuredSourceUsable(got.questions)
             THEN Return(got.questions)
             ELSE pc' = "resolve" /\ result' = result
  /\ UNCHANGED << questions, sessionAnswers, questionPdfText, pending, callerVars >>

\* lines 231-256: the configuration look-ups
ResolvePaths ==
  /\ pc = "resolve"
  /\ questions' = <<>>
  /\ IF ~hasExamConfig(examNumber) THEN Return(<<>>)
     ELSE IF getAnswerPdfPath(examNumber) = Null
          THEN Throw(AnswerPdfNotConfiguredMessage(examNumber))
     ELSE IF getQuestionPdfPath(examNumber, session) = Null
          THEN Throw(QuestionPdfNotConfiguredMessage(examNumber, session))
     ELSE pc' = "extractAnswer" /\ result' = result
  /\ UNCHANGED << log, jsonQuestions, sessionAnswers, questionPdfText, pending,
                  callerVars >>

\* mutant: the answers of both sessions are kept
SessionAnswersUnfiltered(allAnswers) == allAnswers

\* line 322: allAnswers.filter(a => a.session === session)
SessionAnswers(allAnswers) == SelectSeq(allAnswers, LAMBDA a : a.session = session)

\* lines 297-331: the answer key
ExtractAnswerPdf ==
  /\ pc = "extractAnswer"
  /\ \E pdf \in AnswerPdfs :
       LET path == getAnswerPdfPath(examNumber)
           got == extractTextFromPDF(path, pdf)
           answers == SessionAnswers(parseAnswerText(got.text, examNumber))
       IN /\ log' = Append(log, "extractAnswer") \o AnswerPdfFacts(pdf)
          /\ IF got.threw
               THEN /\ ThrowInTry(AnswerPdfFailedMessage(path, got.message))
                    /\ UNCHANGED sessionAnswers
             ELSE IF Len(answers) = 0
               THEN /\ ThrowInTry(AnswerDataMissingMessage(examNumber, session))
                    /\ UNCHANGED sessionAnswers
             ELSE /\ sessionAnswers' = answers
                  /\ pc' = "extractQuestion"
                  /\ result' = result
  /\ UNCHANGED << jsonQuestions, questions, questionPdfText, pending, callerVars >>

\* mutant: only an empty text counts as unusable
TextUnusableOnlyEmpty(text) == text.trimLen = 0

\* line 363: !questionPdfText || questionPdfText.trim().length < 100
TextUnusable(text) == text.trimLen < MinQuestionTextLen

\* lines 333-363: the question PDF
ExtractQuestionPdf ==
  /\ pc = "extractQuestion"
  /\ \E pdf \in QuestionPdfs :
       LET path == getQuestionPdfPath(examNumber, session)
           got == extractTextFromPDF(path, pdf)
       IN /\ log' = Append(log, "extractQuestion") \o QuestionPdfFacts(pdf)
          /\ IF got.threw
               THEN /\ pending' = QuestionPdfFailedMessage(path, got.message)
                    /\ pc' = "fallbackCheck"
                    /\ UNCHANGED questionPdfText
             ELSE IF TextUnusable(got.text)
               THEN /\ pending' = ScannedImageMessage(examNumber, session)
                    /\ pc' = "fallbackCheck"
                    /\ UNCHANGED questionPdfText
             ELSE /\ questionPdfText' = got.text
                  /\ pc' = "build"
                  /\ UNCHANGED pending
  /\ UNCHANGED << jsonQuestions, questions, sessionAnswers, result, callerVars >>

\* mutant: without a JSON file the question PDF is read again
FallbackCheckJsonRetrying ==
  /\ pc = "fallbackCheck"
  /\ log' = Append(log, "fallbackCheck")
  /\ \E exists \in BOOLEAN :
       pc' = IF exists THEN "fallbackLoad" ELSE "extractQuestion"
  /\ UNCHANGED << locals, result, callerVars >>

\* lines 348 / 367: checkJsonExists once more
FallbackCheckJson ==
  /\ pc = "fallbackCheck"
  /\ log' = Append(log, "fallbackCheck")
  /\ \E exists \in BOOLEAN :
       IF exists THEN pc' = "fallbackLoad" /\ result' = result
       ELSE ThrowInTry(pending)
  /\ UNCHANGED << locals, callerVars >>

\* lines 349-360 / 368-403
FallbackLoadJson ==
  /\ pc = "fallbackLoad"
  /\ \E response \in JsonResponses(examNumber, session), answerPdf \in AnswerPdfs :
       LET got == loadQuestionsFromJson(examNumber, session, response, answerPdf)
       IN /\ log' = log \o LoadEvents(got)
          /\ jsonQuestions' = got.questions
          /\ IF StructuredSourceUsable(got.questions)
             THEN Return(got.questions)
             ELSE ThrowInTry(pending)
  /\ UNCHANGED << questions, sessionAnswers, questionPdfText, pending, callerVars >>

\* lines 412-605: one iteration of for (const answer of sessionAnswers)
BuildQuestion ==
  /\ pc = "build"
  /\ Len(questions) < Len(sessionAnswers)
  /\ \E answer \in {sessionAnswers[Len(questions) + 1]} :
       \E questionSection \in {LocateSection(questionPdfText, answer.questionNumber)} :
         \E choices \in {ChoicesFor(questionPdfText, questionSection)} :
           questions' = Append(questions,
                               QuestionFromAnswer(examNumber, session, answer, choices))
  /\ UNCHANGED << pc, log, jsonQuestions, sessionAnswers, questionPdfText, pending,
                  result, callerVars >>

\* line 608
ReturnQuestions ==
  /\ pc = "build"
  /\ Len(questions) = Len(sessionAnswers)
  /\ Return(questions)
  /\ UNCHANGED << log, locals, callerVars >>

(***************************************************************************)
(* The callers: Home.loadQuestions (lines 47-86), generateAllQuestions     *)
(***************************************************************************)

\* the next turn of the two nested for loops, or the code after them
NextRequest ==
  /\ log' = <<>>
  /\ jsonQuestions' = <<>>
  /\ questions' = <<>>
  /\ sessionAnswers' = <<>>
  /\ questionPdfText' = NoText
  /\ pending' = <<>>
  /\ result' = NoResult
  /\ IF pairIdx < Len(pairs)
     THEN pairIdx' = pairIdx + 1 /\ pc' = "checkJson"
     ELSE pairIdx' = pairIdx /\ pc' = "finish"

\* what the caller keeps of a finished invocation
Outcome(r) == [kind |-> r.kind, questions |-> r.questions]

\* mutant: only the first question of the returned list is kept
AggregateFirstOnly(all, returned) == all \o SubSeq(returned, 1, 1)

\* allQuestions = allQuestions.concat(questions) / allQuestions.push(...questions)
Aggregate(all, returned) == all \o returned

\* the try branch of the loop body
CollectQuestions ==
  /\ pc = "returned"
  /\ allQuestions' = Aggregate(allQuestions, result.questions)
  /\ outcomes' = Append(outcomes, Outcome(result))
  /\ NextRequest
  /\ UNCHANGED << caller, pairs, allLoadedQuestions, stored, loadError, asideVars >>

\* mutant: a failure ends the loops
LogFailureAbort ==
  /\ pc = "threw"
  /\ outcomes' = Append(outcomes, Outcome(result))
  /\ log' = <<>>
  /\ result' = NoResult
  /\ pc' = "finish"
  /\ UNCHANGED << locals, caller, pairs, pairIdx, allQuestions, allLoadedQuestions,
                  stored, loadError, asideVars >>

\* the catch branch of the loop body: console.error and on to the next pair
LogFailure ==
  /\ pc = "threw"
  /\ outcomes' = Append(outcomes, Outcome(result))
  /\ NextRequest
  /\ UNCHANGED << caller, pairs, allQuestions, allLoadedQuestions, stored, loadError,
                  asideVars >>

\* Home lines 70-79: saveQuestions, then setAllLoadedQuestions; a rejected
\* save is caught by the outer catch, which sets loadError.
\* generateAllQuestions line 642: return allQuestions.
Finish ==
  /\ pc = "finish"
  /\ pc' = "done"
  /\ IF caller = "home" /\ Len(allQuestions) > 0
     THEN \E saved \in BOOLEAN :
            IF saved
            THEN /\ stored' = allQuestions
                 /\ allLoadedQuestions' = allQuestions
                 /\ UNCHANGED loadError
            ELSE /\ loadError' = "failed to load the questions"
                 /\ UNCHANGED << stored, allLoadedQuestions >>
     ELSE /\ allLoadedQuestions' = IF caller = "direct" THEN <<>> ELSE allQuestions
          /\ UNCHANGED << stored, loadError >>
  /\ UNCHANGED << caller, pairs, pairIdx, log, locals, result, outcomes, allQuestions,
                  asideVars >>

Next ==
  \/ CheckJsonExists
  \/ LoadJson
  \/ ResolvePaths
  \/ ExtractAnswerPdf
  \/ ExtractQuestionPdf
  \/ FallbackCheckJson
  \/ FallbackLoadJson
  \/ BuildQuestion
  \/ ReturnQuestions
  \/ CollectQuestions
  \/ LogFailure
  \/ Finish

Spec == Init /\ [][Next]_vars

(***************************************************************************)
(* Functions applied on their own                                          *)
(***************************************************************************)

\* the other variables while a single function is applied: no invocation of
\* generateQuestionsFromAnswerPdf is in progress
Idle(at) ==
  /\ caller = "direct"
  /\ pairs = << <<29, "gozen">> >>
  /\ pairIdx = 1
  /\ pc = at
  /\ log = <<>>
  /\ jsonQuestions = <<>>
  /\ questions = <<>>
  /\ sessionAnswers = <<>>
  /\ questionPdfText = NoText
  /\ pending = <<>>
  /\ result = NoResult
  /\ outcomes = <<>>
  /\ allQuestions = <<>>
  /\ stored = <<>>
  /\ loadError = Null

orchestratorVars == << caller, pairs, pairIdx, pc, log, locals, result, outcomes,
                      allQuestions, allLoadedQuestions, stored, loadError >>
mainVars == << orchestratorVars, rendererVars, quizVars >>

StdChoices == [a |-> "X", b |-> "Y", c |-> "Z", d |-> "W", e |-> Null]

\* records of a data file: every way of giving or leaving out the two answer
\* fields ("" and [] are what hand-edited files carry for "not known")
AnswerFieldItems ==
  { DataItem(n, StdChoices, single, list, Null) :
      n \in 1..3,
      single \in {Null, "", "b"},
      list \in {Undefined, <<>>, <<"a">>, <<"c", "a">>} }

\* convertToQuestion(item, examNumber, session, pdfCorrectAnswers) with the
\* map loadCorrectAnswers built
ConvertCalls ==
  { [op |-> "convertToQuestion", item |-> item, examNumber |-> 29, session |-> s,
     pdfCorrectAnswers |-> loadCorrectAnswers(29, s, pdf).answerMap] :
      item \in AnswerFieldItems, s \in Range(Sessions), pdf \in AnswerPdfs }

\* supplement records as supplementExtractor returns them for one booklet: two
\* crops of figure 12A (both printed beside question 1), a figure without a
\* question number, a figure of question 2
SupplementRecords ==
  { Supplement("29-gozen-12A", "12A", 29, "gozen", TRUE, <<1>>),
    Supplement("29-gozen-12A-2", "12A", 29, "gozen", TRUE, <<1, 2>>),
    Supplement("29-gozen-3", "3", 29, "gozen", FALSE, <<>>),
    Supplement("29-gozen-5", "5", 29, "gozen", TRUE, <<2>>) }

\* what detectSupplementReferences finds in a question text: nothing, one
\* marker, two markers of different figures
DetectedReferences ==
  { <<>>,
    << SupplementReference("Bessatsu No.12A", "", "12A") >>,
    << SupplementReference("Bessatsu No.3", "", "3") >>,
    << SupplementReference("Bessatsu No.3", "", "3"),
       SupplementReference("Bessatsu No.12A", "", "12A") >> }

\* how reading the supplement PDF ends (lines 263-295): no path configured,
\* the import or the fetch rejects, the response is not ok,
\* extractSupplementsFromPDF rejects, or the records are extracted
BessatsuOutcomes ==
  {"noPath", "importRejects", "fetchRejects", "notOk", "extractRejects", "records"}

\* mutant: a rejection leaves the function
LoadSupplementsUncaught(outcome, extracted) ==
  [threw |-> outcome \in {"importRejects", "fetchRejects", "extractRejects"},
   supplements |-> IF outcome = "records" THEN extracted ELSE <<>>]

\* lines 262-295: the local array supplements, and whether an error leaves the
\* function; the catch of line 292 only warns
LoadSupplements(outcome, extracted) ==
  [threw |-> FALSE,
   supplements |-> IF outcome = "records" THEN extracted ELSE <<>>]

SupplementCalls ==
  { [op |-> "loadSupplements", outcome |-> outcome, supplementReferences |-> refs,
     examNumber |-> 29, session |-> "gozen", questionNumber |-> n,
     extracted |-> << Supplement("29-gozen-12A", "12A", 29, "gozen", TRUE, <<1>>),
                      Supplement("29-gozen-5", "5", 29, "gozen", TRUE, <<2>>) >>] :
      outcome \in BessatsuOutcomes, refs \in DetectedReferences, n \in 1..2 }

\* lines 258-295 and 541-578: the supplement PDF is read, and the references
\* of one question are linked with what was read
CallLoadSupplements ==
  /\ call.op = "loadSupplements"
  /\ ret = <<>>
  /\ \E loaded \in {LoadSupplements(call.outcome, call.extracted)} :
       ret' = << [threw |-> loaded.threw,
                  supplementReferences |->
                    IF loaded.threw THEN <<>>
                    ELSE LinkedSupplementReferences(call.supplementReferences,
                           call.examNumber, call.session, loaded.supplements,
                           call.questionNumber)] >>
  /\ UNCHANGED << mainVars, sessionQuestions, call >>

LinkCalls ==
  { [op |-> "linkSupplements", supplementReferences |-> refs, examNumber |-> 29,
     session |-> "gozen", supplements |-> supplements, questionNumber |-> n] :
      refs \in DetectedReferences,
      supplements \in Arrangements(SupplementRecords),
      n \in 1..2 }

CallLinkSupplements ==
  /\ call.op = "linkSupplements"
  /\ ret = <<>>
  /\ ret' = << LinkedSupplementReferences(call.supplementReferences, call.examNumber,
                                          call.session, call.supplements,
                                          call.questionNumber) >>
  /\ UNCHANGED << mainVars, sessionQuestions, call >>

\* a record with the same text under two labels
ItemTwin ==
  DataItem(4, [a |-> "X", b |-> "X", c |-> "Z", d |-> "W", e |-> Null], "b", Undefined, Null)

\* the Questions the text path builds from a question text, for the answers
\* of one session of AnswerTextFull
TextPathQuestions(exam, text, s) ==
  LET answers == SelectSeq(parseAnswerText(AnswerTextFull, exam), LAMBDA a : a.session = s)
  IN [i \in 1..Len(answers) |->
        QuestionFromAnswer(exam, s, answers[i],
                           ChoicesFor(text, LocateSection(text, answers[i].questionNumber)))]

\* the Questions the structured load builds from a list of records
JsonPathQuestions(exam, items, s) ==
  loadQuestionsFromJson(exam, s, JsonResponse("data", DataFile(exam, s, TRUE, items)),
                        Pdf("text", AnswerTextFull)).questions

\* Questions of either path, as they reach the shuffle
ShuffleInputs ==
  Range(TextPathQuestions(29, QuestionTextListed, "gozen"))
    \cup Range(TextPathQuestions(29, QuestionTextSparse, "gogo"))
    \cup Range(JsonPathQuestions(29, <<ItemSingle, ItemNoAnswer, ItemBoth, ItemTwin>>, "gozen"))
    \cup Range(JsonPathQuestions(29, <<ItemBlankChoices>>, "gogo"))

ShuffleCalls ==
  UNION { { [op |-> "shuffleChoices", question |-> q, perm |-> perm] :
              perm \in PermutationsOf(Len(q.choices)) } : q \in ShuffleInputs }

CallShuffleChoices ==
  /\ call.op = "shuffleChoices"
  /\ ret = <<>>
  /\ ret' = << shuffleChoices(call.question, call.perm) >>
  /\ UNCHANGED << mainVars, sessionQuestions, call >>

\* records with every way of giving, blanking or leaving out a choice text
ChoiceFieldItems ==
  { DataItem(1, [a |-> "X", b |-> b, c |-> c, d |-> d, e |-> e], "a", Undefined, Null) :
      b \in {Null, " ", "Y"}, c \in {"", "Z"}, d \in {Null, "W"},
      e \in {Null, "", " ", "V"} }

ChoiceCalls ==
  { [op |-> "convertToQuestion", item |-> item, examNumber |-> 29, session |-> "gozen",
     pdfCorrectAnswers |-> <<>>] : item \in ChoiceFieldItems }

\* a record without questionNumber
ItemNoNumber == DataItem(NoNumber, StdChoices, "b", Undefined, Null)

\* what fetch(jsonPath) can answer, the files of JsonResponses and three
\* more: a file without its session field, a file with a record that has no
\* questionNumber, a file that lists question 1 twice; and a file whose header
\* names the other session (a copy of the other session's file)
LoadResponses(exam, s) ==
  JsonResponses(exam, s)
    \cup { JsonResponse("data", DataFile(exam, Null, TRUE, <<ItemSingle>>)),
           JsonResponse("data", DataFile(exam, IF s = "gozen" THEN "gogo" ELSE "gozen",
                                         TRUE, <<ItemSingle>>)),
           JsonResponse("data", DataFile(exam, s, TRUE, <<ItemSingle, ItemNoNumber>>)),
           JsonResponse("data", DataFile(exam, s, TRUE, <<ItemSingle, ItemBlankChoices>>)) }

LoadCalls ==
  UNION { { [op |-> "loadQuestionsFromJson", examNumber |-> 29, session |-> s,
             response |-> response, answerPdf |-> answerPdf] :
              response \in LoadResponses(29, s), answerPdf \in AnswerPdfs } :
          s \in Range(Sessions) }

\* mutant: a load adds its questions to those of the load before
CallLoadQuestionsFromJsonKeeping ==
  /\ call.op = "loadQuestionsFromJson"
  /\ Len(ret) < 2
  /\ ret' = Append(ret, (IF ret = <<>> THEN <<>> ELSE ret[1])
                          \o loadQuestionsFromJson(call.examNumber, call.session,
                                                   call.response, call.answerPdf).questions)
  /\ UNCHANGED << mainVars, sessionQuestions, call >>

\* loadQuestionsFromJson(examNumber, session), called once and then once more
\* while the served files stay as they are
CallLoadQuestionsFromJson ==
  /\ call.op = "loadQuestionsFromJson"
  /\ Len(ret) < 2
  /\ ret' = Append(ret, loadQuestionsFromJson(call.examNumber, call.session,
                                              call.response, call.answerPdf).questions)
  /\ UNCHANGED << mainVars, sessionQuestions, call >>

CategoryCalls ==
  { [op |-> "getCategoryByQuestionNumber", questionNumber |-> n, session |-> s] :
      n \in 0..MaxQuestionNumber, s \in Range(Sessions) }

CallGetCategory ==
  /\ call.op = "getCategoryByQuestionNumber"
  /\ ret = <<>>
  /\ ret' = << getCategoryByQuestionNumber(call.questionNumber, call.session) >>
  /\ UNCHANGED << mainVars, sessionQuestions, call >>

CallConvertToQuestion ==
  /\ call.op = "convertToQuestion"
  /\ ret = <<>>
  /\ ret' = << convertToQuestion(call.item, call.examNumber, call.session,
                                 call.pdfCorrectAnswers) >>
  /\ UNCHANGED << mainVars, sessionQuestions, call >>

\* a document whose tenth question follows its first one
QuestionTextTenth ==
  QuestionText(300,
    << Section("mon", <<1>>, FALSE, FALSE, 120, "Q1", <<>>),
       Section("mon", <<1, 0>>, FALSE, FALSE, 150, "Q10", <<>>) >>)

\* the numbers an answer key can ask for
LocateNumbers == {1, 2, 10, 12}

LocateCalls ==
  { [op |-> "locateSection", text |-> t, questionNumber |-> n] :
      t \in {QuestionTextListed, QuestionTextSparse, QuestionTextTenth},
      n \in LocateNumbers }

\* lines 419-455 for one answer entry: questionSection
CallLocateSection ==
  /\ call.op = "locateSection"
  /\ ret = <<>>
  /\ ret' = << LocateSection(call.text, call.questionNumber) >>
  /\ UNCHANGED << mainVars, sessionQuestions, call >>

(***************************************************************************)
(* components/QuestionSession.tsx: grading (handleAnswer)                  *)
(***************************************************************************)

\* correctAnswers when it is there and not empty, else [correctAnswer]
CorrectAnswerList(question) ==
  IF question.correctAnswers # Undefined /\ Len(question.correctAnswers) > 0
  THEN question.correctAnswers
  ELSE << question.correctAnswer >>

IsCorrectPrimaryOnly(question, selectedAnswer) ==
  ToLowerCase(question.correctAnswer) = ToLowerCase(selectedAnswer)

\* correctAnswerList.some(ca => ca.toLowerCase() === selectedAnswer.toLowerCase())
IsCorrect(question, selectedAnswer) ==
  \E i \in 1..Len(CorrectAnswerList(question)) :
    ToLowerCase(CorrectAnswerList(question)[i]) = ToLowerCase(selectedAnswer)

\* Questions as a session can hold them: the list absent, empty or given,
\* labels in either case
GradeQuestions ==
  { [q EXCEPT !.correctAnswer = ca, !.correctAnswers = cas] :
      q \in Range(JsonPathQuestions(29, <<ItemSingle>>, "gozen")),
      ca \in {"b", "B"},
      cas \in {Undefined, <<>>, <<"a", "c">>, <<"A", "b">>} }

GradeCalls ==
  { [op |-> "handleAnswer", question |-> q, selectedAnswer |-> sel] :
      q \in GradeQuestions, sel \in {"a", "b", "c", "A", "B", "e"} }

CallIsCorrect ==
  /\ call.op = "handleAnswer"
  /\ ret = <<>>
  /\ ret' = << IsCorrect(call.question, call.selectedAnswer) >>
  /\ UNCHANGED << mainVars, sessionQuestions, call >>

(***************************************************************************)
(* questionGenerator.extractTextFromPDF: the order of a page's text runs   *)
(***************************************************************************)

\* PdfTextItem: transform[4] is the horizontal, transform[5] the vertical
\* position (counted from 0; here the fifth and sixth element)
PdfTextItem(str, x, y) == [str |-> str, transform |-> <<1, 0, 0, 1, x, y>>]

Abs(n) == IF n < 0 THEN -n ELSE n

\* the vertical distance above which two runs are on different lines
LineTolerance == 5

\* the comparison function handed to sort
CompareItems(a, b) ==
  LET yDiff == b.transform[6] - a.transform[6]
  IN IF Abs(yDiff) > LineTolerance THEN yDiff
     ELSE a.transform[5] - b.transform[5]

\* ECMA-262, Array.prototype.sort: the comparison is consistent over the
\* values when "equal" is an equivalence and "less" and "greater" are
\* transitive
ConsistentComparator(items) ==
  LET S == Range(items)
  IN /\ \A a \in S : CompareItems(a, a) = 0
     /\ \A a, b \in S : CompareItems(a, b) = 0 => CompareItems(b, a) = 0
     /\ \A a, b, c \in S :
          /\ (CompareItems(a, b) = 0 /\ CompareItems(b, c) = 0) => CompareItems(a, c) = 0
          /\ (CompareItems(a, b) < 0 /\ CompareItems(b, c) < 0) => CompareItems(a, c) < 0
          /\ (CompareItems(a, b) > 0 /\ CompareItems(b, c) > 0) => CompareItems(a, c) > 0

\* [...items].sort(compare): with a consistent comparison the stable sorted
\* order; otherwise the order is implementation-defined (any permutation)
SortOutcomes(items) ==
  LET perms == PermutationsOf(Len(items))
  IN IF ConsistentComparator(items)
     THEN {perm \in perms :
             \A i, j \in 1..Len(items) : i < j =>
               \/ CompareItems(items[perm[i]], items[perm[j]]) < 0
               \/ /\ CompareItems(items[perm[i]], items[perm[j]]) = 0
                  /\ perm[i] < perm[j]}
     ELSE perms

\* the text runs of a page: three columns, three lines 4 units apart
PageItems ==
  { PdfTextItem("x" \o NumToString(p[1]) \o "y" \o NumToString(p[2]), p[1], p[2]) :
      p \in { <<0, 0>>, <<10, 4>>, <<20, 8>>, <<0, 8>>, <<0, 4>>, <<20, 0>> } }

RECURSIVE RunsOf(_, _)
\* the sequences of at most n different runs
RunsOf(S, n) ==
  IF n = 0 THEN {<<>>}
  ELSE {<<>>} \cup UNION { {<<x>> \o t : t \in RunsOf(S \ {x}, n - 1)} : x \in S }

\* a page's runs as pdf.js supplies them, and the same runs supplied reversed
SortCalls ==
  { [op |-> "sortItems", items |-> items,
     reversed |-> [i \in 1..Len(items) |-> items[Len(items) + 1 - i]]] :
      items \in {a \in RunsOf(PageItems, MaxRuns) : Len(a) >= 2} }

\* lines 103-113, once for each of the two supplied orders
CallSortItems ==
  /\ call.op = "sortItems"
  /\ Len(ret) < 2
  /\ \E supplied \in {IF ret = <<>> THEN call.items ELSE call.reversed} :
       \E perm \in SortOutcomes(supplied) :
         ret' = Append(ret, [i \in 1..Len(supplied) |-> supplied[perm[i]]])
  /\ UNCHANGED << mainVars, sessionQuestions, call >>

CallInit ==
  /\ Idle("call")
  /\ allLoadedQuestions = <<>>
  /\ sessionQuestions = <<>>
  /\ call \in ConvertCalls \cup ChoiceCalls \cup LinkCalls \cup ShuffleCalls
               \cup LoadCalls \cup CategoryCalls \cup LocateCalls \cup GradeCalls
               \cup SortCalls \cup SupplementCalls
  /\ ret = <<>>
  /\ RendererIdle
  /\ QuizIdle

CallNext ==
  \/ CallConvertToQuestion
  \/ CallLoadQuestionsFromJson
  \/ CallGetCategory
  \/ CallLocateSection
  \/ CallIsCorrect
  \/ CallSortItems
  \/ CallLinkSupplements
  \/ CallLoadSupplements
  \/ CallShuffleChoices

CallSpec == CallInit /\ [][CallNext]_vars

(***************************************************************************)
(* components/Home.tsx: startSession, startExamMode                        *)
(***************************************************************************)

CATEGORY_LIST ==
  << "judo_therapy", "law", "anatomy", "physiology", "kinesiology", "pathology",
     "hygiene", "rehabilitation", "clinical_general", "surgery", "orthopedics" >>

\* database.getQuestions(examNumbers, sessions): the stored questions of
\* these exams and sessions
getQuestions(store, examNumbers, sessions) ==
  SelectSeq(store, LAMBDA q : /\ q.examNumber \in Range(examNumbers)
                              /\ q.session \in Range(sessions))

\* what Home can hold after loadQuestions: nothing; the structured files of
\* two exams; one session from its PDFs (no category) next to structured ones
LoadedCollections ==
  { <<>>,
    JsonPathQuestions(29, <<ItemBlankChoices, ItemNoAnswer, ItemBoth>>, "gozen")
      \o JsonPathQuestions(30, <<ItemSingle>>, "gogo"),
    TextPathQuestions(29, QuestionTextListed, "gozen")
      \o JsonPathQuestions(30, <<ItemSingle, ItemTwin>>, "gozen") }

\* what an earlier saveQuestions left in the store
StoredCollections ==
  { <<>>,
    JsonPathQuestions(29, <<ItemSingle, ItemNoAnswer>>, "gozen")
      \o TextPathQuestions(29, QuestionTextSparse, "gogo")
      \o JsonPathQuestions(30, <<ItemBoth>>, "gogo") }

\* the selections of the settings panel
CategorySelections ==
  { <<>>, <<"law">>, <<"anatomy">>, <<"judo_therapy", "hygiene">>, CATEGORY_LIST }

ExamSelections == { <<>>, <<29>>, <<30>>, <<29, 30>> }

\* the question counts offered; handleQuickStart asks for 10
QuestionCounts == {1, 2, 10}

\* examModeExamNumber: <<>> while no exam is chosen
ExamModeSelections == { <<>>, <<29>>, <<30>> }

\* the permutations the random source is taken to produce for n choices
DrawnPermutations(n) == { [i \in 1..n |-> i], [i \in 1..n |-> n + 1 - i] }

RECURSIVE DrawnFor(_)
\* one drawn permutation per question
DrawnFor(selected) ==
  IF selected = <<>> THEN {<<>>}
  ELSE { <<perm>> \o rest : perm \in DrawnPermutations(Len(Head(selected).choices)),
                            rest \in DrawnFor(Tail(selected)) }

\* [...pool].sort(() => Math.random() - 0.5).slice(0, n): the first n places
\* of some order of the places in `among`
RandomOrders(among, n) == {order \in Arrangements(among) : Len(order) = n}

\* [...pool].sort((a, b) => a.questionNumber - b.questionNumber), stable
SortedOrder(pool, among) ==
  CHOOSE order \in RandomOrders(among, Cardinality(among)) :
    \A a, b \in 1..Len(order) :
      a < b => \/ pool[order[a]].questionNumber < pool[order[b]].questionNumber
               \/ /\ pool[order[a]].questionNumber = pool[order[b]].questionNumber
                  /\ order[a] < order[b]

\* onStartSession(finalQuestions, settings) for the questions at the places
\* `order` of `pool`.  The objects of `pool` are those of allLoadedQuestions
\* when fromLoaded: what shuffleAllChoices does to its argument shows there.
Launch(pool, fromLoaded, order, shuffleTheChoices, perms, request) ==
  LET selected == [k \in 1..Len(order) |-> pool[order[k]]]
      done == IF shuffleTheChoices THEN shuffleAllChoices(selected, perms)
              ELSE [returned |-> selected, argument |-> selected]
  IN /\ sessionQuestions' = done.returned
     /\ allLoadedQuestions' =
          IF fromLoaded
          THEN [i \in 1..Len(pool) |->
                  IF \E k \in 1..Len(order) : order[k] = i
                  THEN done.argument[CHOOSE k \in 1..Len(order) : order[k] = i]
                  ELSE pool[i]]
          ELSE allLoadedQuestions
     /\ call' = request
     /\ loadError' = Null

NotStarted(error) ==
  /\ loadError' = error
  /\ UNCHANGED << allLoadedQuestions, sessionQuestions, call >>

\* mutant: a question without category passes the category filter
InCategoriesOrUnclassified(q, categories) ==
  q.category = Null \/ q.category \in Range(categories)

\* q.category && categories.includes(q.category)
InCategories(q, categories) == q.category # Null /\ q.category \in Range(categories)

\* startSession(mode, count, categories, examNumbers), lines 116-183
StartSession ==
  /\ pc = "done"
  /\ call = NoCall
  /\ \E count \in QuestionCounts, categories \in CategorySelections,
        examNumbers \in ExamSelections :
       IF Len(examNumbers) = 0 \/ Len(categories) = 0
       THEN UNCHANGED << allLoadedQuestions, sessionQuestions, call, loadError >>
       ELSE \E request \in {[op |-> "startSession", count |-> count,
                              categories |-> categories, examNumbers |-> examNumbers]} :
            \E own \in {{i \in 1..Len(allLoadedQuestions) :
                            /\ allLoadedQuestions[i].examNumber \in Range(examNumbers)
                            /\ InCategories(allLoadedQuestions[i], categories)}} :
              IF own # {}
              THEN \E order \in RandomOrders(own, Min2(count, Cardinality(own))) :
                   \E perms \in DrawnFor([k \in 1..Len(order) |->
                                             allLoadedQuestions[order[k]]]) :
                     Launch(allLoadedQuestions, TRUE, order, TRUE, perms, request)
              ELSE \E answered \in BOOLEAN :
                   IF ~answered THEN NotStarted("failed to load the questions")
                   ELSE \E dbQuestions \in {getQuestions(stored, examNumbers, Sessions)} :
                        \E found \in {{i \in 1..Len(dbQuestions) :
                                          InCategories(dbQuestions[i], categories)}} :
                          IF found = {} THEN NotStarted("no questions were found")
                          ELSE \E order \in RandomOrders(found,
                                                          Min2(count, Cardinality(found))) :
                               \E perms \in DrawnFor([k \in 1..Len(order) |->
                                                         dbQuestions[order[k]]]) :
                                 Launch(dbQuestions, FALSE, order, TRUE, perms, request)
  /\ UNCHANGED << caller, pairs, pairIdx, pc, log, locals, result, outcomes,
                  allQuestions, stored, ret, rendererVars, quizVars >>

\* startExamMode(session), lines 186-243
StartExamMode ==
  /\ pc = "done"
  /\ call = NoCall
  /\ \E examModeExamNumber \in ExamModeSelections, s \in Range(Sessions),
        examModeShuffle \in BOOLEAN, examModeShuffleChoices \in BOOLEAN :
       IF Len(examModeExamNumber) = 0
       THEN UNCHANGED << allLoadedQuestions, sessionQuestions, call, loadError >>
       ELSE \E request \in {[op |-> "startExamMode", examNumber |-> examModeExamNumber[1],
                              session |-> s, shuffle |-> examModeShuffle,
                              shuffleChoices |-> examModeShuffleChoices]} :
            \E own \in {{i \in 1..Len(allLoadedQuestions) :
                            /\ allLoadedQuestions[i].examNumber = examModeExamNumber[1]
                            /\ allLoadedQuestions[i].session = s}} :
            \E answered \in BOOLEAN :
            \E pool \in {IF own # {} THEN allLoadedQuestions
                          ELSE IF answered THEN getQuestions(stored, examModeExamNumber, <<s>>)
                          ELSE <<>>} :
            \E among \in {IF own # {} THEN own ELSE 1..Len(pool)} :
              IF own = {} /\ ~answered THEN NotStarted("failed to load the questions")
              ELSE IF among = {} THEN NotStarted("no questions were found")
              ELSE \E order \in (IF examModeShuffle
                                  THEN RandomOrders(among, Cardinality(among))
                                  ELSE {SortedOrder(pool, among)}) :
                   \E perms \in DrawnFor([k \in 1..Len(order) |-> pool[order[k]]]) :
                     /\ examModeShuffleChoices
                          \/ \A k \in 1..Len(order) : perms[k] = [i \in 1..Len(perms[k]) |-> i]
                     /\ Launch(pool, own # {}, order, examModeShuffleChoices, perms, request)
  /\ UNCHANGED << caller, pairs, pairIdx, pc, log, locals, result, outcomes,
                  allQuestions, stored, ret, rendererVars, quizVars >>

\* QuestionSession calls onComplete; Home is shown again
CompleteSession ==
  /\ pc = "done"
  /\ call # NoCall
  /\ call' = NoCall
  /\ sessionQuestions' = <<>>
  /\ UNCHANGED << mainVars, ret >>

\* Home after loadQuestions has finished
SessionInit ==
  /\ caller = "home"
  /\ pairs = CallerPairs
  /\ pairIdx = Len(CallerPairs)
  /\ pc = "done"
  /\ log = <<>>
  /\ jsonQuestions = <<>>
  /\ questions = <<>>
  /\ sessionAnswers = <<>>
  /\ questionPdfText = NoText
  /\ pending = <<>>
  /\ result = NoResult
  /\ outcomes = <<>>
  /\ allQuestions = <<>>
  /\ allLoadedQuestions \in LoadedCollections
  /\ stored \in StoredCollections
  /\ loadError = Null
  /\ sessionQuestions = <<>>
  /\ call = NoCall
  /\ ret = <<>>
  /\ RendererIdle
  /\ QuizIdle

SessionNext ==
  \/ StartSession
  \/ StartExamMode
  \/ CompleteSession

SessionSpec == SessionInit /\ [][SessionNext]_vars

(***************************************************************************)
(* services/bessatsuRenderer.ts: the rendered-image cache                  *)
(***************************************************************************)

\* The supplement PDF served under every configured path: its pages.
BessatsuPages == <<"page1", "page2">>

\* What the callers ask for.  Exam 28 has no entry in EXAM_CONFIGS; the page
\* after the last one is not in the document; every call leaves the scale
\* at its default.
RenderExams == {29, 28}
RenderPages == 1..(Len(BessatsuPages) + 1)
DefaultScale == 2
RenderScales == {DefaultScale}

\* `${examNumber}-${session}-${pageNumber}-${scale}`: the four parts are kept
\* apart (an exam number is written without "-", so the string determines
\* them and startsWith(`${examNumber}-`) compares the exam number)
CacheKey(exam, sess, pageNumber, scale) ==
  [examNumber |-> exam, session |-> sess,
   pageNumber |-> pageNumber, scale |-> scale]

\* canvas.toDataURL of the page of the served file, drawn at the scale
Image(pdfPath, pageNumber, scale) ==
  [pdf |-> pdfPath, page |-> BessatsuPages[pageNumber], scale |-> scale]

\* null where a data URL is expected
NoImage == [pdf |-> Null, page |-> Null, scale |-> 0]

\* Map: has, get, set, delete on a set of entries
MapHas(map, key) == \E e \in map : e.key = key
MapGet(map, key) == (CHOOSE e \in map : e.key = key).value
MapSet(map, key, value) ==
  {e \in map : e.key # key} \cup {[key |-> key, value |-> value]}

\* a call of the renderer: its arguments, where it stands, the page of the
\* loop, the Map under construction and the value returned
Task(fn, exam, sess, pageNumber, scale, at, res, returned) ==
  [fn |-> fn, examNumber |-> exam, session |-> sess,
   pageNumber |-> pageNumber, scale |-> scale, pc |-> at,
   result |-> res, returned |-> returned]

\* the call has returned: its Map for renderAllBessatsuPages, else the value
TaskReturned(task, value) ==
  [fn |-> task.fn, pc |-> "returned", result |-> task.result, returned |-> value]

\* mutant: the image drawn depends on the call that draws it
RenderedBy(t, task) ==
  [pdf |-> t, page |-> BessatsuPages[task.pageNumber], scale |-> task.scale]

\* renderPdfPageToImage for the task's page when the drawing succeeds
Rendered(t, task) ==
  Image(getBessatsuPdfPath(task.examNumber, task.session), task.pageNumber, task.scale)

\* mutant: renderBessatsuPage without the cache check
RenderBessatsuPageSkippingCache(t) ==
  /\ tasks[t].pc \in {"idle", "returned"}
  /\ \E exam \in RenderExams, sess \in Range(Sessions),
        pageNumber \in RenderPages, scale \in RenderScales :
       \E task \in {Task("renderBessatsuPage", exam, sess, pageNumber,
                         scale, "fetch", {}, NoImage)} :
         tasks' = [tasks EXCEPT ![t] =
           IF getBessatsuPdfPath(exam, sess) = Null
           THEN TaskReturned(task, NoImage)
           ELSE task]
  /\ UNCHANGED imageCache

\* renderBessatsuPage up to its first await (lines 19-42)
RenderBessatsuPage(t) ==
  /\ tasks[t].pc \in {"idle", "returned"}
  /\ \E exam \in RenderExams, sess \in Range(Sessions),
        pageNumber \in RenderPages, scale \in RenderScales :
       \E task \in {Task("renderBessatsuPage", exam, sess, pageNumber,
                         scale, "fetch", {}, NoImage)} :
       \E cacheKey \in {CacheKey(exam, sess, pageNumber, scale)} :
         tasks' = [tasks EXCEPT ![t] =
           IF MapHas(imageCache, cacheKey)
           THEN TaskReturned(task, MapGet(imageCache, cacheKey))
           ELSE IF getBessatsuPdfPath(exam, sess) = Null
           THEN TaskReturned(task, NoImage)
           ELSE task]
  /\ UNCHANGED imageCache

\* renderAllBessatsuPages up to its first await (lines 69-82)
RenderAllBessatsuPages(t) ==
  /\ tasks[t].pc \in {"idle", "returned"}
  /\ \E exam \in RenderExams, sess \in Range(Sessions), scale \in RenderScales :
       \E task \in {Task("renderAllBessatsuPages", exam, sess, 0,
                         scale, "fetch", {}, NoImage)} :
         tasks' = [tasks EXCEPT ![t] =
           IF getBessatsuPdfPath(exam, sess) = Null
           THEN TaskReturned(task, NoImage)
           ELSE task]
  /\ UNCHANGED imageCache

RECURSIVE LoopFrom(_, _, _)
\* the for loop of renderAllBessatsuPages from `page` on, up to the next
\* await: pages found in the cache are copied into the result
LoopFrom(cache, task, page) ==
  IF page > Len(BessatsuPages) THEN TaskReturned(task, NoImage)
  ELSE LET cacheKey == CacheKey(task.examNumber, task.session, page, task.scale)
       IN IF MapHas(cache, cacheKey)
          THEN LoopFrom(cache,
                        [task EXCEPT !.result =
                           MapSet(task.result, page, MapGet(cache, cacheKey))],
                        page + 1)
          ELSE [task EXCEPT !.pc = "render", !.pageNumber = page]

\* await fetch(pdfPath) and await response.blob() settle: a response that is
\* not ok and a rejection both end in the catch
FetchSettles(t) ==
  /\ tasks[t].pc = "fetch"
  /\ \E ok \in BOOLEAN :
       tasks' = [tasks EXCEPT ![t] =
         IF ~ok THEN TaskReturned(tasks[t], NoImage)
         ELSE IF tasks[t].fn = "renderBessatsuPage"
         THEN [tasks[t] EXCEPT !.pc = "render"]
         ELSE [tasks[t] EXCEPT !.pc = "count"]]
  /\ UNCHANGED imageCache

\* await getPdfPageCount(blob) settles (line 91), and the loop starts
CountSettles(t) ==
  /\ tasks[t].pc = "count"
  /\ \E ok \in BOOLEAN :
       tasks' = [tasks EXCEPT ![t] =
         IF ok THEN LoopFrom(imageCache, tasks[t], 1)
         ELSE TaskReturned(tasks[t], NoImage)]
  /\ UNCHANGED imageCache

\* await renderPdfPageToImage(blob, page, scale) settles: a data URL, null
\* (a page outside the document, or an error caught inside), or a rejection
\* (the import of pdf.js fails)
RenderSettles(t) ==
  /\ tasks[t].pc = "render"
  /\ \E outcome \in {"image", "null", "rejected"} :
       \E imageDataUrl \in {IF outcome = "image" /\ tasks[t].pageNumber <= Len(BessatsuPages)
                            THEN Rendered(t, tasks[t]) ELSE NoImage} :
       \E cacheKey \in {CacheKey(tasks[t].examNumber, tasks[t].session,
                                 tasks[t].pageNumber, tasks[t].scale)} :
       \E cache \in {IF outcome # "rejected" /\ imageDataUrl # NoImage
                     THEN MapSet(imageCache, cacheKey, imageDataUrl)
                     ELSE imageCache} :
         /\ imageCache' = cache
         /\ tasks' = [tasks EXCEPT ![t] =
              IF tasks[t].fn = "renderBessatsuPage"
              THEN TaskReturned(tasks[t], imageDataUrl)
              ELSE IF outcome = "rejected" THEN TaskReturned(tasks[t], NoImage)
              ELSE LoopFrom(cache,
                            [tasks[t] EXCEPT !.result =
                               IF imageDataUrl # NoImage
                               THEN MapSet(@, tasks[t].pageNumber, imageDataUrl)
                               ELSE @],
                            tasks[t].pageNumber + 1)]

\* clearBessatsuCache()
ClearBessatsuCache ==
  /\ imageCache # {}
  /\ imageCache' = {}
  /\ UNCHANGED tasks

\* clearBessatsuCacheForExam(exam, session?)
ClearBessatsuCacheForExam ==
  /\ \E exam \in RenderExams, sess \in Range(Sessions) \cup {Null} :
       \E keysToDelete \in {{e.key : e \in {e \in imageCache :
                               /\ e.key.examNumber = exam
                               /\ sess = Null \/ e.key.session = sess}}} :
         /\ keysToDelete # {}
         /\ imageCache' = {e \in imageCache : e.key \notin keysToDelete}
  /\ UNCHANGED tasks

otherVars == << orchestratorVars, sessionQuestions, call, ret, quizVars >>

CacheInit ==
  /\ Idle("done")
  /\ allLoadedQuestions = <<>>
  /\ sessionQuestions = <<>>
  /\ call = NoCall
  /\ ret = <<>>
  /\ RendererIdle
  /\ QuizIdle

CacheNext ==
  \/ \E t \in Tasks : RenderBessatsuPage(t) /\ UNCHANGED otherVars
  \/ \E t \in Tasks : RenderAllBessatsuPages(t) /\ UNCHANGED otherVars
  \/ \E t \in Tasks : FetchSettles(t) /\ UNCHANGED otherVars
  \/ \E t \in Tasks : CountSettles(t) /\ UNCHANGED otherVars
  \/ \E t \in Tasks : RenderSettles(t) /\ UNCHANGED otherVars
  \/ ClearBessatsuCache /\ UNCHANGED otherVars
  \/ ClearBessatsuCacheForExam /\ UNCHANGED otherVars

CacheSpec == CacheInit /\ [][CacheNext]_vars

(***************************************************************************)
(* components/QuestionSession.tsx (with QuestionView and AnswerFeedback)   *)
(***************************************************************************)

\* SessionSettings as Home builds them: startSession (learning, test) and
\* startExamMode (exam); timeLimit is undefined in learning mode
SessionSettings(mode, timeLimit, isExamMode) ==
  [mode |-> mode, timeLimit |-> timeLimit, isExamMode |-> isExamMode]

QuizSettings ==
  { SessionSettings("learning", NoNumber, FALSE),
    SessionSettings("test", MaxTime, FALSE),
    SessionSettings("exam", MaxTime, TRUE) }

\* props.questions: the questions of a document, or its first one alone
QuizQuestions ==
  LET all == TextPathQuestions(29, QuestionTextListed, "gozen")
  IN {all, SubSeq(all, 1, 1)}

\* const isExamMode = settings.isExamMode || mode === 'exam'
isExamMode == settings.isExamMode \/ settings.mode = "exam"

Answer(questionId, selected, correct, status) ==
  [questionId |-> questionId, selectedAnswer |-> selected, isCorrect |-> correct,
   status |-> status]

\* the entries handleTimeUp and handleQuit add: one for every question from
\* the index on
Unanswered(from, status) ==
  [k \in 1..(Len(sessionQuestions) - from) |->
     Answer(sessionQuestions[from + k].id, Null, FALSE, status)]

\* onComplete(answers, quitAtQuestion), and the handler that called it
Completion(by, list, quitAtQuestion) ==
  [by |-> by, answers |-> list, quitAtQuestion |-> quitAtQuestion]

\* moveToNext as called with the answers it reads from answersRef.current
MoveToNext(list) ==
  /\ showFeedback' = FALSE
  /\ IF currentIndex < Len(sessionQuestions) - 1
     THEN /\ currentIndex' = currentIndex + 1
          /\ viewSelected' =
               IF sessionQuestions[currentIndex + 2].id = sessionQuestions[currentIndex + 1].id
               THEN viewSelected ELSE Null
          /\ UNCHANGED completions
     ELSE /\ Len(completions) < MaxCompletions
          /\ completions' = Append(completions, Completion("moveToNext", list, NoNumber))
          /\ UNCHANGED << currentIndex, viewSelected >>

\* QuestionView.handleAnswerSelect and handleAnswer: a choice button or its
\* number key; both are dead once a choice is taken
HandleAnswer ==
  /\ mounted
  /\ viewSelected = Null
  /\ \E k \in 1..Len(sessionQuestions[currentIndex + 1].choices) :
       \E label \in {sessionQuestions[currentIndex + 1].choices[k].label} :
         /\ viewSelected' = label
         /\ answersRef' = Append(answersRef,
              Answer(sessionQuestions[currentIndex + 1].id, label,
                     IsCorrect(sessionQuestions[currentIndex + 1], label), "answered"))
  /\ showFeedback' = TRUE
  /\ UNCHANGED << settings, currentIndex, remainingTime, showQuitConfirm,
                  timerIndex, mounted, completions >>

\* handleSkip: the button is dead once a choice is taken and lies under the
\* quit dialog.  The updater given to setAnswers writes answersRef.current;
\* React runs it at once or at the next render, so moveToNext reads the list
\* with or without the new entry.
HandleSkip ==
  /\ mounted
  /\ viewSelected = Null
  /\ ~showQuitConfirm
  /\ \E answer \in {Answer(sessionQuestions[currentIndex + 1].id, Null, FALSE, "skipped")} :
       /\ answersRef' = Append(answersRef, answer)
       /\ \E eager \in BOOLEAN :
            MoveToNext(IF eager THEN Append(answersRef, answer) ELSE answersRef)
  /\ UNCHANGED << settings, remainingTime, showQuitConfirm, timerIndex, mounted >>

\* AnswerFeedback's timeout calls onNext
FeedbackNext ==
  /\ mounted
  /\ showFeedback
  /\ MoveToNext(answersRef)
  /\ UNCHANGED << settings, answersRef, remainingTime, showQuitConfirm,
                  timerIndex, mounted >>

\* mutant: the time is taken down without the test for time-up
TickBelowZero ==
  /\ mounted
  /\ settings.mode \in {"test", "exam"}
  /\ remainingTime # NoNumber
  /\ remainingTime > -MaxTime
  /\ remainingTime' = remainingTime - 1
  /\ timerIndex' = currentIndex
  /\ UNCHANGED << settings, currentIndex, answersRef, showFeedback, showQuitConfirm,
                  viewSelected, mounted, completions >>

\* the interval of the timer effect fires.  The effect is set up again when
\* remainingTime changes, so its handleTimeUp sees the currentIndex of the
\* render that followed the last change.
Tick ==
  /\ mounted
  /\ settings.mode \in {"test", "exam"}
  /\ remainingTime # NoNumber
  /\ IF remainingTime <= 0
     THEN /\ Len(completions) < MaxCompletions
          /\ completions' = Append(completions,
               Completion("handleTimeUp", answersRef \o Unanswered(timerIndex, "timeout"),
                          NoNumber))
          /\ UNCHANGED << remainingTime, timerIndex >>
     ELSE /\ remainingTime' = remainingTime - 1
          /\ timerIndex' = currentIndex
          /\ UNCHANGED completions
  /\ UNCHANGED << settings, currentIndex, answersRef, showFeedback, showQuitConfirm,
                  viewSelected, mounted >>

\* the quit button of the header, rendered only when !isExamMode
OpenQuitConfirm ==
  /\ mounted
  /\ ~isExamMode
  /\ ~showFeedback
  /\ ~showQuitConfirm
  /\ showQuitConfirm' = TRUE
  /\ UNCHANGED << settings, currentIndex, answersRef, showFeedback, remainingTime,
                  viewSelected, timerIndex, mounted, completions >>

\* the "continue" button of the dialog
CloseQuitConfirm ==
  /\ mounted
  /\ showQuitConfirm
  /\ showQuitConfirm' = FALSE
  /\ UNCHANGED << settings, currentIndex, answersRef, showFeedback, remainingTime,
                  viewSelected, timerIndex, mounted, completions >>

\* mutant: the quit dialog can be opened in every mode
handleQuitInEveryMode ==
  /\ mounted
  /\ Len(completions) < MaxCompletions
  /\ completions' = Append(completions,
       Completion("handleQuit", answersRef \o Unanswered(currentIndex, "quit"),
                  currentIndex + 1))
  /\ UNCHANGED << settings, currentIndex, answersRef, showFeedback, remainingTime,
                  showQuitConfirm, viewSelected, timerIndex, mounted >>

\* handleQuit: the "quit" button of the dialog, rendered when showQuitConfirm
handleQuit ==
  /\ mounted
  /\ showQuitConfirm
  /\ Len(completions) < MaxCompletions
  /\ completions' = Append(completions,
       Completion("handleQuit", answersRef \o Unanswered(currentIndex, "quit"),
                  currentIndex + 1))
  /\ UNCHANGED << settings, currentIndex, answersRef, showFeedback, remainingTime,
                  showQuitConfirm, viewSelected, timerIndex, mounted >>

\* the parent stops rendering the session after onComplete
Unmount ==
  /\ mounted
  /\ completions # <<>>
  /\ mounted' = FALSE
  /\ UNCHANGED << settings, currentIndex, answersRef, showFeedback, remainingTime,
                  showQuitConfirm, viewSelected, timerIndex, completions >>

sessionVars == << orchestratorVars, rendererVars, sessionQuestions, call, ret >>

\* QuestionSession as first rendered
QuizInit ==
  /\ Idle("done")
  /\ allLoadedQuestions = <<>>
  /\ call = NoCall
  /\ ret = <<>>
  /\ RendererIdle
  /\ sessionQuestions \in QuizQuestions
  /\ settings \in QuizSettings
  /\ currentIndex = 0
  /\ answersRef = <<>>
  /\ showFeedback = FALSE
  /\ remainingTime = settings.timeLimit
  /\ showQuitConfirm = FALSE
  /\ viewSelected = Null
  /\ timerIndex = 0
  /\ mounted = TRUE
  /\ completions = <<>>

QuizNext ==
  \/ HandleAnswer /\ UNCHANGED sessionVars
  \/ HandleSkip /\ UNCHANGED sessionVars
  \/ FeedbackNext /\ UNCHANGED sessionVars
  \/ Tick /\ UNCHANGED sessionVars
  \/ OpenQuitConfirm /\ UNCHANGED sessionVars
  \/ CloseQuitConfirm /\ UNCHANGED sessionVars
  \/ handleQuit /\ UNCHANGED sessionVars
  \/ Unmount /\ UNCHANGED sessionVars

QuizSpec == QuizInit /\ [][QuizNext]_vars

\* setInterval keeps firing while the component is mounted
QuizFairSpec == QuizSpec /\ WF_vars(Tick /\ UNCHANGED sessionVars)

(***************************************************************************)
(* Properties                                                              *)
(***************************************************************************)

Logged(event) == \E i \in 1..Len(log) : log[i] = event
Count(event) == Cardinality({i \in 1..Len(log) : log[i] = event})
Ended == pc \in {"returned", "threw"}

\* the structured source was there at the first look and gave questions
StructuredLoadedFirst == Len(jsonQuestions) > 0 /\ ~Logged("fallbackCheck")

\* C1 as stated: when the structured source exists and loads at least one
\* question, those questions are returned and no text extraction of any PDF
\* (answer key or question PDF) happens in the invocation.
C1_NoExtractionAtAll ==
  StructuredLoadedFirst =>
    /\ pc = "returned" /\ result.questions = jsonQuestions
    /\ ~Logged("extractAnswer") /\ ~Logged("extractQuestion")
    /\ ~Logged("loaderExtractAnswer")

\* C1 amended: when the structured source exists and loads at least one
\* question, those questions are returned directly, the orchestrator's own
\* text extraction of the answer-key PDF and of the question PDF is never
\* invoked, and the only text extraction of the invocation is the one the
\* structured loader may make of the answer-key PDF (at most once).
C1_NoOrchestratorExtraction ==
  StructuredLoadedFirst =>
    /\ pc = "returned" /\ result = Result("returned", jsonQuestions, <<>>)
    /\ ~Logged("extractAnswer") /\ ~Logged("extractQuestion")
    /\ Count("loaderExtractAnswer") <= 1
    /\ log[1] = "checkJson" /\ log[2] = "loadJson"

C1_Witness ==
  StructuredLoadedFirst /\ pc = "returned" /\ Logged("loaderExtractAnswer")

\* C2: when the structured source is absent or gives zero questions, the
\* invocation of a configured exam does not end before the text extraction
\* of the answer-key PDF has been attempted; no invocation ends in failure
\* without that attempt, and the question PDF is extracted only after the
\* answer-key PDF.
C2_ExtractionBeforeFailure ==
  /\ (Ended /\ ~StructuredLoadedFirst /\ hasExamConfig(examNumber))
       => Logged("extractAnswer")
  /\ pc = "threw" => Logged("extractAnswer")
  /\ \A j \in 1..Len(log) :
       log[j] = "extractQuestion" => \E i \in 1..(j - 1) : log[i] = "extractAnswer"

C2_Witness ==
  /\ pc = "threw" /\ Logged("loadJson") /\ jsonQuestions = <<>>
  /\ Logged("extractAnswer") /\ Logged("extractQuestion")

C4_EmptyKeyFatalOnEveryPath ==
  (Logged("answerKeyEmpty") \/ Logged("loaderAnswerKeyEmpty")) => pc # "returned"

\* C4 amended: when the orchestrator's own extraction of the answer key
\* succeeds but gives zero answers for the session, the generation ends in
\* failure at once; the structured loader, which parses the answer key too,
\* tolerates an empty answer map and still returns its questions.
C4_EmptyKeyFatalInOrchestrator ==
  Logged("answerKeyEmpty") =>
    /\ pc = "threw" /\ result.kind = "threw" /\ result.questions = <<>>
    /\ Includes(result.message, "answer data not found: exam ")
    /\ ~Logged("extractQuestion")

C4_Witness == pc = "threw" /\ Logged("answerKeyEmpty")

\* C5: when the question PDF gives no usable text, the structured source is
\* looked at once more; its questions are returned when there is at least
\* one, and the invocation fails only after that fallback gave none.
C5_FallbackBeforeFailure ==
  Logged("questionTextUnusable") =>
    /\ pc \in {"fallbackCheck", "fallbackLoad", "returned", "threw"}
    /\ Ended => Logged("fallbackCheck")
    /\ pc = "returned" => Len(jsonQuestions) > 0 /\ result.questions = jsonQuestions
    /\ pc = "threw" => jsonQuestions = <<>>

C5_Witness ==
  Logged("questionTextUnusable") /\ pc = "returned" /\ Len(result.questions) > 0

\* C6: every error raised by the generation carries the path of the expected
\* structured file and the template of its shape.
C6_EveryFailureGuides ==
  pc = "threw" =>
    /\ Includes(result.message, getQuestionDataPath(examNumber, session))
    /\ Includes(result.message, JsonTemplate(examNumber, session))

\* C7 as stated: the answer-key PDF and the question PDF are each extracted
\* at most once per invocation, the structured source is loaded at most twice.
C7_EachPdfExtractedOnce ==
  /\ Count("extractAnswer") + Count("loaderExtractAnswer") <= 1
  /\ Count("extractQuestion") <= 1
  /\ Count("loadJson") <= 2

InFlight == pc \notin {"returned", "threw", "finish", "done"}

PcRank ==
  CASE pc = "checkJson" -> 8 [] pc = "loadJson" -> 7 [] pc = "resolve" -> 6
    [] pc = "extractAnswer" -> 5 [] pc = "extractQuestion" -> 4
    [] pc = "fallbackCheck" -> 3 [] pc = "fallbackLoad" -> 2
    [] pc = "build" -> 1 [] OTHER -> 0

\* no answer key lists more entries than this
MostAnswers == CHOOSE n \in 0..100 :
  /\ \A pdf \in AnswerPdfs : Len(pdf.text) <= n
  /\ \E pdf \in AnswerPdfs : Len(pdf.text) = n

\* the steps an invocation can still take, at most
Remaining == PcRank * (MostAnswers + 1) + (Len(sessionAnswers) - Len(questions))

C7_StepCounts ==
  /\ Count("checkJson") <= 1 /\ Count("fallbackCheck") <= 1
  /\ Count("extractAnswer") <= 1 /\ Count("extractQuestion") <= 1
  /\ Count("loadJson") <= Count("checkJson") + Count("fallbackCheck")
  /\ Count("loaderExtractAnswer") <= Count("loadJson")
  /\ Count("extractAnswer") + Count("loaderExtractAnswer") <= 3

\* C7 amended: no retry loop: every step of the orchestrator (the two
\* existence checks, its extraction of the answer-key PDF, its extraction of
\* the question PDF) happens at most once, the structured source is loaded at
\* most once at first and once as fallback; each structured load may itself
\* extract the answer-key PDF's text once more, so that PDF is text-extracted
\* up to three times; and the invocation always reaches a returned list or a
\* raised error (every step lowers a bounded measure and none blocks).
C7_NoRetryAndTerminates ==
  /\ [](C7_StepCounts)
  /\ [](InFlight => ENABLED Next)
  /\ [][InFlight => Remaining' < Remaining]_vars

C7_Witness ==
  /\ Ended /\ Count("loadJson") = 2 /\ Count("extractAnswer") = 1
  /\ Count("loaderExtractAnswer") = 2 /\ Count("extractQuestion") = 1

ReturnedQuestions(o) == IF o.kind = "returned" THEN o.questions ELSE <<>>

\* s occurs in t as a run of consecutive elements
IsRunOf(s, t) ==
  \E k \in 0..(Len(t) - Len(s)) : \A i \in 1..Len(s) : t[k + i] = s[i]

\* C8: when the caller's loops are over every pair has been attempted,
\* whatever failed before it, and the aggregate holds every question of
\* every pair that succeeded.
C8_FailuresDoNotStopTheLoop ==
  pc \in {"finish", "done"} =>
    /\ Len(outcomes) = Len(pairs)
    /\ \A i \in 1..Len(outcomes) :
         outcomes[i].kind = "returned" => IsRunOf(outcomes[i].questions, allQuestions)

C8_Witness ==
  /\ pc = "finish" /\ Len(outcomes) = 2
  /\ outcomes[1].kind = "threw" /\ outcomes[2].kind = "returned"
  /\ allQuestions = outcomes[2].questions /\ Len(allQuestions) > 0

\* C9: at every point the aggregate is exactly the lists of the generations
\* that have returned, each whole and in order of completion: nothing of the
\* generation under way (its local array may be half built) and nothing of a
\* failed one is in it; what is handed on to the component state or to the
\* caller is that aggregate or nothing, and only once the loops are over.
C9_PublishedWholeOrNotAtAll ==
  /\ Len(outcomes) <= Len(pairs)
  /\ allQuestions = Concat([i \in 1..Len(outcomes) |-> ReturnedQuestions(outcomes[i])])
  /\ \A i \in 1..Len(outcomes) : outcomes[i].kind = "threw" => outcomes[i].questions = <<>>
  /\ allLoadedQuestions \in {<<>>, allQuestions}
  /\ allLoadedQuestions # <<>> => pc = "done"

C9_Witness ==
  /\ pc = "build" /\ Len(questions) = 1 /\ Len(sessionAnswers) = 2
  /\ Len(allQuestions) >= 1 /\ pairIdx = 2

DistinctLabels(choices) ==
  \A i, j \in 1..Len(choices) : choices[i].label = choices[j].label => i = j

\* C10: every Question returned by either path has 2 to 5 choices, pairwise
\* distinct labels and no choice with empty text.
C10_ChoicesWellFormed ==
  pc = "returned" =>
    \A i \in 1..Len(result.questions) :
      LET choices == result.questions[i].choices
      IN /\ Len(choices) >= 2 /\ Len(choices) <= 5
         /\ DistinctLabels(choices)
         /\ \A k \in 1..Len(choices) : choices[k].text # ""

\* the Questions the invocation has returned
Returned == IF pc = "returned" THEN Range(result.questions) ELSE {}

HasAnswerList(q) == q.correctAnswers # Undefined /\ Len(q.correctAnswers) > 0

\* C11: every Question returned by either path whose correctAnswers list is
\* present and not empty has correctAnswer = correctAnswers[0].
C11_PrimaryIsFirstOfList ==
  \A q \in Returned : HasAnswerList(q) => q.correctAnswer = q.correctAnswers[1]

\* a structured record whose two answer fields disagree
C11_Witness ==
  \E q \in Returned :
    /\ q.questionNumber = ItemBoth.questionNumber
    /\ q.correctAnswer = "c" /\ q.correctAnswers = <<"c", "a">>

\* C12: in every Question returned by either path with more than one
\* correct answer, each correct answer is (case-insensitively) the label of
\* one of the Question's own choices.
C12_AnswersAmongLabels ==
  \A q \in Returned :
    (q.correctAnswers # Undefined /\ Len(q.correctAnswers) > 1) =>
      \A k \in 1..Len(q.correctAnswers) :
        \E i \in 1..Len(q.choices) :
          ToLowerCase(q.choices[i].label) = ToLowerCase(q.correctAnswers[k])

\* C14: every Question returned by the text-extraction path has the category
\* of the static range table for its session and number.
C14_TextPathHasCategory ==
  (pc = "returned" /\ questionPdfText # NoText) =>
    \A q \in Returned :
      q.category = getCategoryByQuestionNumber(q.questionNumber, q.session)

\* C13: in the structured load the answer of a record comes from its non-empty
\* correctAnswers list, else from its correctAnswer, else from the answer-key
\* map entry of its question number; a record carrying either field gets the
\* same answer whatever the answer-key map holds.
C13_AnswerPrecedence ==
  (call.op = "convertToQuestion" /\ ret # <<>>) =>
    LET item == call.item
        q == ret[1]
        keyed == AnswerMapGet(call.pdfCorrectAnswers, item.questionNumber)
        withoutKey == convertToQuestion(item, call.examNumber, call.session, <<>>)
        ListOf(l) == IF Len(l) > 1 THEN l ELSE Undefined
    IN IF item.correctAnswers # Undefined /\ item.correctAnswers # <<>>
       THEN /\ q.correctAnswer = item.correctAnswers[1]
            /\ q.correctAnswers = ListOf(item.correctAnswers)
            /\ q = withoutKey
       ELSE IF item.correctAnswer \notin {Null, ""}
       THEN /\ q.correctAnswer = item.correctAnswer
            /\ q.correctAnswers = Undefined
            /\ q = withoutKey
       ELSE /\ q.correctAnswer = (IF keyed = <<>> THEN "" ELSE keyed[1])
            /\ q.correctAnswers = ListOf(keyed)

\* a record with correctAnswer "b" converted while the key lists other letters
C13_Witness ==
  /\ call.op = "convertToQuestion"
  /\ ret # <<>>
  /\ call.item.correctAnswer = "b"
  /\ call.item.correctAnswers = Undefined
  /\ AnswerMapGet(call.pdfCorrectAnswers, call.item.questionNumber) = <<"b", "d">>
  /\ ret[1].correctAnswer = "b"

ImageNumbers(refs) == [i \in 1..Len(refs) |-> refs[i].imageNumber]

NoRepeat(seq) == \A i, j \in 1..Len(seq) : seq[i] = seq[j] => i = j

\* C16: the final supplement reference list of a question has no two entries
\* with the same image number, whatever the detected references and the
\* supplement records are.
C16_NoDuplicateImageNumbers ==
  (call.op = "linkSupplements" /\ ret # <<>>) => NoRepeat(ImageNumbers(ret[1]))

\* the text-driven references of a call: the detected ones, linked when there
\* are supplement records
TextDriven ==
  IF Len(call.supplements) > 0 /\ Len(call.supplementReferences) > 0
  THEN linkSupplementReferences(call.supplementReferences, call.examNumber,
                                call.session, call.supplements)
  ELSE call.supplementReferences

\* the places, in `supplements`, of the records that name the question and
\* whose image number no text-driven reference has
MetadataOnly ==
  {k \in 1..Len(call.supplements) :
     /\ call.supplements[k].hasQuestionNumbers
     /\ \E i \in 1..Len(call.supplements[k].questionNumbers) :
          call.supplements[k].questionNumbers[i] = call.questionNumber
     /\ \A i \in 1..Len(TextDriven) :
          TextDriven[i].imageNumber # call.supplements[k].imageNumber}

\* C17: the final list starts with the text-driven references, unchanged and
\* in their order; after them comes exactly one synthesized reference for
\* each supplement record that names the question and whose image number is
\* not among the text-driven ones, in the order of the records.
C17_TextDrivenThenMetadata ==
  (call.op = "linkSupplements" /\ ret # <<>>) =>
    LET final == ret[1]
        n == Len(TextDriven)
    IN /\ Len(final) = n + Cardinality(MetadataOnly)
       /\ SubSeq(final, 1, n) = TextDriven
       /\ \A k \in MetadataOnly :
            LET place == n + Cardinality({j \in MetadataOnly : j <= k})
            IN final[place] =
                 SupplementReference(
                   SynthesizedReferenceText(call.supplements[k].imageNumber),
                   call.supplements[k].id, call.supplements[k].imageNumber)

\* question 2 with text references to figures 3 and 12A: both kept in front,
\* figure 5 appended from its record, the 12A record naming question 2 not
\* appended again
C17_Witness ==
  /\ call.op = "linkSupplements"
  /\ ret # <<>>
  /\ call.questionNumber = 2
  /\ Len(call.supplementReferences) = 2
  /\ Len(call.supplements) = 4
  /\ call.supplements[1].id = "29-gozen-12A-2"
  /\ ImageNumbers(ret[1]) = <<"3", "12A", "5">>
  /\ ret[1][2].supplementId = "29-gozen-12A-2"

CorrectLabels(q) ==
  {q.correctAnswer}
    \cup (IF q.correctAnswers = Undefined THEN {} ELSE Range(q.correctAnswers))

CorrectTexts(q) ==
  {q.choices[i].text : i \in {k \in 1..Len(q.choices) : q.choices[k].label \in CorrectLabels(q)}}

\* C18: for every Question and every permutation, the choice texts whose new
\* label is among the remapped correct answers are the choice texts whose old
\* label was among the correct answers.
C18_CorrectTextsPreserved ==
  (call.op = "shuffleChoices" /\ ret # <<>>) =>
    CorrectTexts(ret[1]) = CorrectTexts(call.question)

TimesIn(choices, text) == Cardinality({i \in 1..Len(choices) : choices[i].text = text})

\* the new label of the choice that stood at old position k
MovedTo(perm, k) == LabelOfNumber(CHOOSE i \in 1..Len(perm) : perm[i] = k)

\* C19: after a shuffle the labels are a, b, c, ... by position, every text
\* occurs as often as before, and each correct answer is the new label of the
\* very choice that carried it before, also when another choice has the same
\* text.
C19_LabelsTextsAndIdentity ==
  (call.op = "shuffleChoices" /\ ret # <<>>) =>
    LET old == call.question
        new == ret[1]
    IN /\ Len(new.choices) = Len(old.choices)
       /\ \A i \in 1..Len(new.choices) : new.choices[i].label = LabelOfNumber(i)
       /\ \A i \in 1..Len(old.choices) :
            TimesIn(new.choices, old.choices[i].text)
              = TimesIn(old.choices, old.choices[i].text)
       /\ DistinctLabels(old.choices) =>
            \A k \in 1..Len(old.choices) :
              /\ old.choices[k].label = old.correctAnswer
                   => new.correctAnswer = MovedTo(call.perm, k)
              /\ old.correctAnswers # Undefined =>
                   /\ Len(new.correctAnswers) = Len(old.correctAnswers)
                   /\ \A j \in 1..Len(old.correctAnswers) :
                        old.choices[k].label = old.correctAnswers[j]
                          => new.correctAnswers[j] = MovedTo(call.perm, k)

\* X under a and b with b correct, shuffled to Z, X, X: the answer is c, the
\* place the old b went to, not b, where its twin stands
C19_Witness ==
  /\ call.op = "shuffleChoices"
  /\ ret # <<>>
  /\ call.question.questionNumber = ItemTwin.questionNumber
  /\ call.perm = <<3, 1, 2, 4>>
  /\ ret[1].choices[2].text = "X"
  /\ ret[1].choices[3].text = "X"
  /\ ret[1].correctAnswer = "c"

\* C15: every question startSession places in a session has a category
\* among the selected categories and an exam number among the selected exam
\* numbers; a question without category is never placed.
C15_SessionWithinSelection ==
  call.op = "startSession" =>
    /\ Len(sessionQuestions) > 0
    /\ \A k \in 1..Len(sessionQuestions) :
         /\ sessionQuestions[k].category # Null
         /\ \E c \in 1..Len(call.categories) :
              call.categories[c] = sessionQuestions[k].category
         /\ \E e \in 1..Len(call.examNumbers) :
              call.examNumbers[e] = sessionQuestions[k].examNumber

\* a session over exam 30 only, taken from a collection that also holds
\* questions of exam 29 in the selected categories
C15_Witness ==
  /\ call.op = "startSession"
  /\ call.examNumbers = <<30>>
  /\ call.categories = CATEGORY_LIST
  /\ Len(sessionQuestions) = 1
  /\ \E i \in 1..Len(allLoadedQuestions) :
       allLoadedQuestions[i].examNumber = 29 /\ allLoadedQuestions[i].category # Null

\* C20: starting a session, with whatever shuffling, leaves every Question of
\* the loaded collection and of the store as it was.
C20_ShuffleCopies ==
  [][allLoadedQuestions' = allLoadedQuestions /\ stored' = stored]_vars

\* a running session whose questions were shuffled out of the loaded
\* collection: the choices handed on are reordered, those loaded are not
C20_Witness ==
  /\ call # NoCall
  /\ \E k \in 1..Len(sessionQuestions) : \E i \in 1..Len(allLoadedQuestions) :
       /\ sessionQuestions[k].id = allLoadedQuestions[i].id
       /\ sessionQuestions[k].choices # allLoadedQuestions[i].choices
       /\ allLoadedQuestions[i].choices[1].label = "a"
       /\ sessionQuestions[k].choices[1].text # allLoadedQuestions[i].choices[1].text

\* a structured source that is not a JSON file of the expected shape
Malformed(response) ==
  \/ response.kind # "data"
  \/ ~response.data.hasQuestions
  \/ response.data.session = Null
  \/ \E i \in 1..Len(response.data.questions) :
       response.data.questions[i].questionNumber = NoNumber

\* C22: a malformed structured source is answered by loadQuestionsFromJson
\* with an empty list (and so the orchestrator goes on as if there were no
\* such source).
C22_MalformedIsEmpty ==
  (call.op = "loadQuestionsFromJson" /\ Malformed(call.response)) =>
    \A i \in 1..Len(ret) : ret[i] = <<>>

C24_IdsDistinct ==
  call.op = "loadQuestionsFromJson" =>
    \A i \in 1..Len(ret) : \A j, k \in 1..Len(ret[i]) :
      ret[i][j].id = ret[i][k].id => j = k

\* the ranges of a table that hold the number
RangesHolding(mapping, n) ==
  {i \in 1..Len(mapping) : mapping[i].startQuestion <= n /\ n <= mapping[i].endQuestion}

\* C26: getCategoryByQuestionNumber gives the category of the range of the
\* session's table that holds the number, and judo_therapy when none does; no
\* number is held by two ranges of a table.
C26_CategoryOfTheOneRange ==
  (call.op = "getCategoryByQuestionNumber" /\ ret # <<>>) =>
    LET mapping == IF call.session = "gozen" THEN GOZEN_CATEGORY_MAPPING
                   ELSE GOGO_CATEGORY_MAPPING
        holding == RangesHolding(mapping, call.questionNumber)
    IN /\ Cardinality(holding) <= 1
       /\ \A i \in holding : ret[1] = mapping[i].category
       /\ holding = {} => ret[1] = "judo_therapy"

\* question 50 of the afternoon: surgery, where the morning table says law
C26_Witness ==
  /\ call.op = "getCategoryByQuestionNumber"
  /\ call.questionNumber = 50
  /\ call.session = "gogo"
  /\ ret = <<"surgery">>

RawChoice(choices, label) ==
  CASE label = "a" -> choices.a
    [] label = "b" -> choices.b
    [] label = "c" -> choices.c
    [] label = "d" -> choices.d
    [] label = "e" -> choices.e

\* C30: the choices of a converted record are its choices a, b, c, d, e that
\* are given and not blank, in that order, each under its own letter.
C30_NonBlankChoicesKept ==
  (call.op = "convertToQuestion" /\ ret # <<>>) =>
    LET given == SelectSeq(<<"a", "b", "c", "d", "e">>,
                           LAMBDA l : RawChoice(call.item.choices, l) \notin {Null, "", " "})
    IN /\ Len(ret[1].choices) = Len(given)
       /\ \A k \in 1..Len(given) :
            /\ ret[1].choices[k].label = given[k]
            /\ ret[1].choices[k].text = RawChoice(call.item.choices, given[k])

\* b blank, d left out, e given: a, c, e remain
C30_Witness ==
  /\ call.op = "convertToQuestion"
  /\ ret # <<>>
  /\ call.item.choices = [a |-> "X", b |-> " ", c |-> "Z", d |-> Null, e |-> "V"]
  /\ ret[1].choices = << Choice("a", "X"), Choice("c", "Z"), Choice("e", "V") >>

RECURSIVE NumberWritten(_)
\* the number a marker's digits write
NumberWritten(digits) ==
  IF digits = <<>> THEN 0
  ELSE 10 * NumberWritten(SubSeq(digits, 1, Len(digits) - 1)) + digits[Len(digits)]

\* C25: a located section starts at the marker of the wanted question and
\* ends at the next marker (or the end of the document): it is exactly the
\* one section of that number.
C25_SectionOfTheWantedNumber ==
  (call.op = "locateSection" /\ ret # <<>> /\ ret[1].found) =>
     /\ ret[1].from = ret[1].to
     /\ NumberWritten(call.text.sections[ret[1].from].digits) = call.questionNumber

\* the lower-case labels handleAnswer accepts for a question
AcceptedLabels(q) ==
  IF q.correctAnswers # Undefined /\ q.correctAnswers # <<>>
  THEN {ToLowerCase(l) : l \in Range(q.correctAnswers)}
  ELSE {ToLowerCase(q.correctAnswer)}

\* C28: an answer is graded correct exactly when the selected label is,
\* ignoring case, one of correctAnswers if that list is there and not empty,
\* and else the single correctAnswer.
C28_GradedAgainstListOrPrimary ==
  (call.op = "handleAnswer" /\ ret # <<>>) =>
     (ret[1] <=> ToLowerCase(call.selectedAnswer) \in AcceptedLabels(call.question))

\* graded correct by the list although the primary answer is another label,
\* and with the selection in the other case
C28_Witness ==
  /\ call.op = "handleAnswer" /\ ret # <<>> /\ ret[1]
  /\ call.question.correctAnswers = <<"A", "b">>
  /\ call.question.correctAnswer = "B"
  /\ call.selectedAnswer = "a"


\* C27: in a page's sorted runs, two runs more than 5 units apart vertically
\* stand with the higher one first, two runs within 5 units stand left to
\* right, and the order does not depend on the order the runs came in.
C27_LinesThenColumnsWhateverTheInput ==
  (call.op = "sortItems" /\ ret # <<>>) =>
     /\ \A k \in 1..Len(ret) : \A i, j \in 1..Len(ret[k]) : i < j =>
          IF Abs(ret[k][i].transform[6] - ret[k][j].transform[6]) > LineTolerance
          THEN ret[k][i].transform[6] > ret[k][j].transform[6]
          ELSE ret[k][i].transform[5] <= ret[k][j].transform[5]
     /\ Len(ret) = 2 => ret[1] = ret[2]


AllAnsweredOrSkipped(list) ==
  \A i \in 1..Len(sessionQuestions) : \E k \in 1..Len(list) :
    /\ list[k].questionId = sessionQuestions[i].id
    /\ list[k].status \in {"answered", "skipped"}

\* C29: a session in exam mode is never given the quit dialog and delivers no
\* "quit" answer and no quitAtQuestion; it calls onComplete only from the
\* time-up handler or when every question has been answered or skipped.
C29_ExamModeHasNoQuit ==
  /\ [](isExamMode =>
          /\ ~showQuitConfirm
          /\ \A i \in 1..Len(completions) :
               /\ completions[i].quitAtQuestion = NoNumber
               /\ \A k \in 1..Len(completions[i].answers) :
                    completions[i].answers[k].status # "quit")
  /\ [][(isExamMode /\ completions' # completions) =>
          \/ completions'[Len(completions')].by = "handleTimeUp"
          \/ AllAnsweredOrSkipped(answersRef')]_vars

\* exam-mode sessions that ended by time-up with a question open, and ones
\* that ended after the last question
C29_Witness ==
  /\ isExamMode
  /\ Len(completions) = 2
  /\ completions[1].by = "moveToNext"
  /\ completions[2].by = "handleTimeUp"


\* whether the list has one entry per question of the session, in question
\* order
OnePerQuestion(list) ==
  /\ Len(list) = Len(sessionQuestions)
  /\ \A i \in 1..Len(list) : list[i].questionId = sessionQuestions[i].id

\* C32: the list handed over at time-up has one entry per question in
\* question order, the recorded answers first and then a "timeout" entry
\* for every question not yet answered or skipped.
C32_TimeUpOneEntryPerQuestion ==
  (completions # <<>> /\ completions[1].by = "handleTimeUp") =>
     /\ OnePerQuestion(completions[1].answers)
     /\ \A i \in 1..Len(completions[1].answers) :
          completions[1].answers[i].status = "timeout" <=> i > Len(answersRef)

\* C33: with a time limit, remainingTime goes down by one per tick and never
\* below zero, and if the timer keeps ticking the session is ended, by
\* time-up unless it has ended before.
C33_CountdownEndsTheSession ==
  /\ [](remainingTime # NoNumber => remainingTime >= 0)
  /\ [][remainingTime' # remainingTime => remainingTime' = remainingTime - 1]_vars
  /\ (settings.mode \in {"test", "exam"} ~> completions # <<>>)

\* a session nobody touched, ended by time-up at zero
C33_Witness ==
  /\ remainingTime = 0
  /\ answersRef = <<>>
  /\ Len(completions) = 1
  /\ completions[1].by = "handleTimeUp"

\* C34: onComplete is called at most once per session.
C34_CompletedAtMostOnce == Len(completions) <= 1

\* C35: the list handed over after the last question has one entry per
\* question in question order, the last question's entry included.
C35_LastQuestionIncluded ==
  (completions # <<>> /\ completions[1].by = "moveToNext") =>
     OnePerQuestion(completions[1].answers)


\* the cache key of the page a running call is at
KeyOf(task) ==
  CacheKey(task.examNumber, task.session, task.pageNumber, task.scale)

\* C39: the image cache holds rendered images only.  A render that fails or
\* gives null leaves the cache as it was, and a call for a key the cache
\* does not hold goes on to fetch and render; a call of renderBessatsuPage
\* for a key the cache holds returns the cached value at once, and the loop
\* of renderAllBessatsuPages draws only pages the cache does not hold.
C39_CacheHoldsRenderedImagesOnly ==
  /\ [](\A e \in imageCache : e.value # NoImage)
  /\ [][\A t \in Tasks :
          /\ ( /\ tasks[t].pc = "render"
               /\ tasks'[t] # tasks[t]
               /\ \/ tasks[t].fn = "renderBessatsuPage" /\ tasks'[t].returned = NoImage
                  \/ /\ tasks[t].fn = "renderAllBessatsuPages"
                     /\ ~MapHas(tasks'[t].result, tasks[t].pageNumber) )
             => imageCache' = imageCache
          /\ ( /\ tasks[t].pc \in {"idle", "returned"}
               /\ tasks'[t] # tasks[t]
               /\ tasks'[t].fn = "renderBessatsuPage" )
             => /\ tasks'[t].pc = "fetch" => ~MapHas(imageCache, KeyOf(tasks'[t]))
                /\ tasks'[t].pc = "returned" /\ tasks'[t].returned # NoImage
                     => \E e \in imageCache : e.value = tasks'[t].returned
          /\ ( /\ tasks'[t] # tasks[t]
               /\ tasks'[t].fn = "renderAllBessatsuPages"
               /\ tasks'[t].pc = "render" )
             => ~MapHas(imageCache', KeyOf(tasks'[t]))]_vars

\* one call has returned null and left nothing behind; the other has
\* returned the only image the cache holds
C39_Witness ==
  \E t, u \in Tasks :
    /\ tasks[t].fn = "renderBessatsuPage" /\ tasks[t].pc = "returned"
    /\ tasks[t].returned = NoImage
    /\ tasks[u].fn = "renderBessatsuPage" /\ tasks[u].pc = "returned"
    /\ imageCache = {e \in imageCache : e.value = tasks[u].returned}
    /\ imageCache # {}


\* C40: when the initial load has ended, the questions that were generated
\* are the loaded collection sessions are started from, whether or not the
\* store could be written.
C40_GeneratedStayLoaded ==
  (caller = "home" /\ pc = "done") => allLoadedQuestions = allQuestions


\* C31: a Question whose section is not located, or whose section gives no
\* choice under any strategy, has the four choices a, b, c, d with one and
\* the same placeholder text; otherwise its choices are those of the first
\* strategy, in the order strict list, numerals, letters, that finds any.
C31_PlaceholdersOrOneStrategy ==
  pc = "build" =>
    \A i \in 1..Len(questions) :
      LET questionSection == LocateSection(questionPdfText, sessionAnswers[i].questionNumber)
          span == SubSeq(questionPdfText.sections, questionSection.from, questionSection.to)
          strategies == << extractChoices(span), FlexibleNumeralChoices(span),
                           FlexibleLetterChoices(span) >>
          hits == {k \in 1..3 : Len(strategies[k]) > 0}
          choices == questions[i].choices
      IN IF ~questionSection.found \/ hits = {}
         THEN /\ [k \in 1..Len(choices) |-> choices[k].label] = <<"a", "b", "c", "d">>
              /\ \A k \in 1..4 : choices[k].text = choices[1].text
              /\ choices[1].text \in {QuestionNotFound, ChoicesNotFound}
         ELSE choices = strategies[CHOOSE k \in hits : \A j \in hits : k <= j]

\* both placeholders in one collection: a question whose section gave no
\* choice and one whose section was not located
C31_Witness ==
  /\ pc = "build"
  /\ \E i, j \in 1..Len(questions) :
       /\ questions[i].choices = PlaceholderChoices(ChoicesNotFound)
       /\ questions[j].choices = PlaceholderChoices(QuestionNotFound)

\* C36: when the supplement PDF cannot be read, nothing is raised and the
\* question carries exactly the references detected in its text.
C36_UnreadableSupplementIsNoRecords ==
  (call.op = "loadSupplements" /\ ret # <<>> /\ call.outcome # "records") =>
     /\ ~ret[1].threw
     /\ ret[1].supplementReferences = call.supplementReferences

\* the fetch of the supplement PDF was rejected for a question whose text
\* names a figure the booklet holds
C36_Witness ==
  /\ call.op = "loadSupplements"
  /\ call.outcome = "fetchRejects"
  /\ \E i \in 1..Len(call.supplementReferences) :
       call.supplementReferences[i].imageNumber = "12A"
  /\ ret # <<>>

\* C37: every Question returned for a request has the exam number and the
\* session of the request, and the id written from them.
C37_QuestionsOfTheRequest ==
  call.op = "loadQuestionsFromJson" =>
    \A i \in 1..Len(ret) : \A j \in 1..Len(ret[i]) :
      /\ ret[i][j].examNumber = call.examNumber
      /\ ret[i][j].session = call.session
      /\ ret[i][j].id = QuestionId(call.examNumber, call.session, ret[i][j].questionNumber)

\* C38: generateQuestionsFromAnswerPdf returns an empty list only for an exam
\* number without a configuration.
C38_EmptyOnlyWithoutConfig ==
  (pc = "returned" /\ result.questions = <<>>) => ~hasExamConfig(examNumber)

\* the empty list returned for exam 34, and nothing raised
C38_Witness ==
  /\ pc = "returned"
  /\ result.kind = "returned"
  /\ result.questions = <<>>
  /\ examNumber = 34


====
